---------------------------- MODULE Spec2Model ----------------------------
(***************************************************************************)
(* Model of the approximate Riemann solver of ryujin                        *)
(* (source/riemann_solver.template.h): the structural functions f, df,      *)
(* phi, the wave-speed estimates, the two-rarefaction estimate, and         *)
(* RiemannSolver::compute on two primitive states as a state machine        *)
(* (bracket selection, clamp, quadratic Newton loop, return), its caller    *)
(* compute on two conserved states (greedy d_ij), the state projector       *)
(* riemann_data_from_state, two threads evaluating edges concurrently, and  *)
(* InitialValues::parse_parameters_callback (initial_values.template.h).    *)
(* There is one specification for each: Spec, SpecProjector,                *)
(* SpecConcurrent, SpecInitialValues.                                       *)
(*                                                                          *)
(* Number is modelled as a fixed-point number with Scale units per 1.0,     *)
(* every arithmetic operation rounding to the nearest unit, plus the        *)
(* special values NaN and +-Inf with the semantics of C++ scalar            *)
(* arithmetic: comparisons with NaN are false, std::min/std::max are        *)
(* (b < a) ? b : a and (a < b) ? b : a, std::pow of a negative base is NaN  *)
(* for a non-integer exponent and keeps the sign for an odd integer one.    *)
(* The exponent 2 gamma / (gamma - 1) of the two-rarefaction estimate is 7  *)
(* up to round-off; whether its floating-point value is the integer 7       *)
(* depends on the build, and the model covers both outcomes.                *)
(***************************************************************************)
EXTENDS Integers, Sequences, FiniteSets, TLC

(***************************************************************************)
(* Number: fixed-point arithmetic                                           *)
(***************************************************************************)

\* Units per 1.0 of the model's Number.
Scale == 1000

\* Special values of Number.  PosInf and NegInf are ordered like integers.
NaN == -2000000000
PosInf == 1000000000
NegInf == -1000000000

IsNaN(x) == x = NaN
IsInf(x) == x = PosInf \/ x = NegInf
IsFinite(x) == ~IsNaN(x) /\ ~IsInf(x)

AbsInt(n) == IF n < 0 THEN -n ELSE n

\* n / d for integers n, d > 0 rounded to the nearest integer.
RoundDiv(n, d) ==
  IF n >= 0 THEN (2 * n + d) \div (2 * d) ELSE -((2 * (-n) + d) \div (2 * d))

SameSign(x, y) == (x >= 0) = (y >= 0)

\* operator<, operator<=, operator>= of Number
Less(x, y) == ~IsNaN(x) /\ ~IsNaN(y) /\ x < y
LessEq(x, y) == ~IsNaN(x) /\ ~IsNaN(y) /\ x <= y
GreaterEq(x, y) == ~IsNaN(x) /\ ~IsNaN(y) /\ x >= y

\* unary minus
Neg(x) == IF IsNaN(x) THEN NaN ELSE -x

\* operator+
Add(x, y) ==
  IF IsNaN(x) \/ IsNaN(y) THEN NaN
  ELSE IF IsInf(x) THEN (IF IsInf(y) /\ y # x THEN NaN ELSE x)
  ELSE IF IsInf(y) THEN y
  ELSE x + y

\* operator-
Sub(x, y) == Add(x, Neg(y))

\* operator*
Mul(x, y) ==
  IF IsNaN(x) \/ IsNaN(y) THEN NaN
  ELSE IF IsInf(x) \/ IsInf(y)
    THEN (IF x = 0 \/ y = 0 THEN NaN
          ELSE IF SameSign(x, y) THEN PosInf ELSE NegInf)
  ELSE IF SameSign(x, y) THEN RoundDiv(AbsInt(x) * AbsInt(y), Scale)
  ELSE -RoundDiv(AbsInt(x) * AbsInt(y), Scale)

\* operator/
Div(x, y) ==
  IF IsNaN(x) \/ IsNaN(y) THEN NaN
  ELSE IF IsInf(x) THEN (IF IsInf(y) THEN NaN
                         ELSE IF SameSign(x, y) THEN PosInf ELSE NegInf)
  ELSE IF IsInf(y) THEN 0
  ELSE IF y = 0 THEN (IF x = 0 THEN NaN ELSE IF x > 0 THEN PosInf ELSE NegInf)
  ELSE IF SameSign(x, y) THEN RoundDiv(AbsInt(x) * Scale, AbsInt(y))
  ELSE -RoundDiv(AbsInt(x) * Scale, AbsInt(y))

\* std::abs
Abs(x) == IF IsNaN(x) THEN NaN ELSE AbsInt(x)

\* std::min(a, b) is (b < a) ? b : a
Min(a, b) == IF Less(b, a) THEN b ELSE a

\* std::max(a, b) is (a < b) ? b : a
Max(a, b) == IF Less(a, b) THEN b ELSE a

\* Largest r in lo..hi with r * r <= x (bisection; lo * lo <= x).
RECURSIVE SqrtSearch(_, _, _)
SqrtSearch(x, lo, hi) ==
  IF lo >= hi THEN lo
  ELSE LET mid == (lo + hi + 1) \div 2
       IN IF mid * mid <= x * Scale THEN SqrtSearch(x, mid, hi)
          ELSE SqrtSearch(x, lo, mid - 1)

\* std::sqrt
Sqrt(x) ==
  IF IsNaN(x) \/ x < 0 THEN NaN
  ELSE IF x = PosInf THEN PosInf
  ELSE SqrtSearch(x, 0, IF x > Scale THEN x ELSE Scale)

\* r^n by repeated multiplication, saturating just above cap.
RECURSIVE IPow(_, _, _)
IPow(r, n, cap) ==
  IF n = 0 THEN Scale
  ELSE LET y == IPow(r, n - 1, cap)
       IN IF y > cap THEN y ELSE Mul(y, r)

\* Largest r in lo..hi with r^d <= x.
RECURSIVE RootSearch(_, _, _, _)
RootSearch(x, d, lo, hi) ==
  IF lo >= hi THEN lo
  ELSE LET mid == (lo + hi + 1) \div 2
       IN IF IPow(mid, d, IF x > Scale THEN x ELSE Scale) <= x
          THEN RootSearch(x, d, mid, hi)
          ELSE RootSearch(x, d, lo, mid - 1)

\* The d-th root of x > 0.
Root(x, d) ==
  IF d = 1 THEN x ELSE RootSearch(x, d, 0, IF x > Scale THEN x ELSE Scale)

RECURSIVE GCD(_, _)
GCD(m, n) == IF n = 0 THEN m ELSE GCD(n, m % n)

\* Largest finite magnitude of the model's Number.
MaxFinite == PosInf \div Scale

\* ryujin::pow(x, n/d) with std::pow semantics, for a rational exponent n/d
\* (d > 0) whose floating-point value is not an integer: a negative base is
\* a domain error (NaN).
Pow(x, n, d) ==
  IF IsNaN(x) \/ x < 0 THEN NaN
  ELSE IF x = 0 THEN (IF n > 0 THEN 0 ELSE PosInf)
  ELSE IF x = PosInf THEN (IF n > 0 THEN PosInf ELSE 0)
  ELSE LET g == GCD(AbsInt(n), d)
           y == IPow(Root(x, d \div g), AbsInt(n) \div g, MaxFinite)
           z == IF y > MaxFinite THEN PosInf ELSE y
       IN IF n > 0 THEN z ELSE Div(Scale, z)

\* ryujin::pow(x, n) with std::pow semantics for an exponent whose
\* floating-point value is the integer n > 0: defined for a negative base.
PowInteger(x, n) ==
  IF IsNaN(x) THEN NaN
  ELSE IF x < 0 THEN (IF n % 2 = 1 THEN Neg(Pow(-x, n, 1)) ELSE Pow(-x, n, 1))
  ELSE Pow(x, n, 1)

\* positive_part(x) = max(0, x), negative_part(x) = max(0, -x)
positive_part(x) == Max(0, x)
negative_part(x) == Max(0, Neg(x))

\* Mutant of the select: the two values exchanged.
SelectLessExchanged(a, b, t, f) == IF Less(a, b) THEN f ELSE t

\* dealii::compare_and_apply_mask<less_than>(a, b, t, f)
SelectLess(a, b, t, f) == IF Less(a, b) THEN t ELSE f
\* dealii::compare_and_apply_mask<less_than_or_equal>(a, b, t, f)
SelectLessEq(a, b, t, f) == IF LessEq(a, b) THEN t ELSE f
\* dealii::compare_and_apply_mask<greater_than_or_equal>(a, b, t, f)
SelectGreaterEq(a, b, t, f) == IF GreaterEq(a, b) THEN t ELSE f

(***************************************************************************)
(* Physical constants (ProblemDescription)                                  *)
(***************************************************************************)

\* gamma = GammaNum / GammaDen, the adiabatic exponent 1.4.
GammaNum == 7
GammaDen == 5

gamma == RoundDiv(GammaNum * Scale, GammaDen)
gamma_inverse == Div(Scale, gamma)
gamma_minus_one_inverse == Div(Scale, gamma - Scale)
gamma_plus_one_inverse == Div(Scale, gamma + Scale)

One == Scale
Two == 2 * Scale
Half == Scale \div 2

\* Speed of sound a = sqrt(gamma * p / rho / (1 - b * rho)) with b = 0.
speed_of_sound(rho, p) == Sqrt(Div(Div(Mul(gamma, p), rho), One))

\* A primitive state [rho, u, p, a] is a sequence; the indices are 1-based.
Rho(state) == state[1]
U(state) == state[2]
P(state) == state[3]
A(state) == state[4]

(***************************************************************************)
(* Structural functions                                                     *)
(***************************************************************************)

\* 0.5 * rho * ((gamma + 1) * p_star + (gamma - 1) * p)
radicand_inverse(primitive_state, p_star) ==
  Mul(Mul(Half, Rho(primitive_state)),
      Add(Mul(gamma + One, p_star), Mul(gamma - One, P(primitive_state))))

f(primitive_state, p_star) ==
  LET p == P(primitive_state)
      a == A(primitive_state)
      true_value ==
        Div(Sub(p_star, p), Sqrt(radicand_inverse(primitive_state, p_star)))
      \* exponent = (gamma - 1) * 0.5 * gamma_inverse
      factor ==
        Sub(Pow(Div(p_star, p), GammaNum - GammaDen, 2 * GammaNum), One)
      false_value == Mul(Mul(Mul(factor, Two), a), gamma_minus_one_inverse)
  IN SelectGreaterEq(p_star, p, true_value, false_value)

df(primitive_state, p_star) ==
  LET p == P(primitive_state)
      a == A(primitive_state)
      denominator ==
        Add(p_star, Mul(Mul(gamma - One, gamma_plus_one_inverse), p))
      true_value ==
        Div(Sub(denominator, Mul(Half, Sub(p_star, p))),
            Mul(denominator, Sqrt(radicand_inverse(primitive_state, p_star))))
      \* exponent = (-1 - gamma) * 0.5 * gamma_inverse
      factor ==
        Div(Mul(Mul(Mul(gamma - One, Half), gamma_inverse),
                Pow(Div(p_star, p), -(GammaDen + GammaNum), 2 * GammaNum)),
            p)
      false_value == Mul(Mul(Mul(factor, Two), a), gamma_minus_one_inverse)
  IN SelectGreaterEq(p_star, p, true_value, false_value)

phi(riemann_data_i, riemann_data_j, p) ==
  Sub(Add(Add(f(riemann_data_i, p), f(riemann_data_j, p)), U(riemann_data_j)),
      U(riemann_data_i))

\* Mutant of phi_of_p_max: evaluated at the smaller pressure.
phi_of_p_min(riemann_data_i, riemann_data_j) ==
  LET p_i == P(riemann_data_i)
      p_j == P(riemann_data_j)
      p_max == Min(p_i, p_j)
      value_i ==
        Div(Sub(p_max, p_i), Sqrt(radicand_inverse(riemann_data_i, p_max)))
      value_j ==
        Div(Sub(p_max, p_j), Sqrt(radicand_inverse(riemann_data_j, p_max)))
  IN Sub(Add(Add(value_i, value_j), U(riemann_data_j)), U(riemann_data_i))

phi_of_p_max(riemann_data_i, riemann_data_j) ==
  LET p_i == P(riemann_data_i)
      p_j == P(riemann_data_j)
      p_max == Max(p_i, p_j)
      value_i ==
        Div(Sub(p_max, p_i), Sqrt(radicand_inverse(riemann_data_i, p_max)))
      value_j ==
        Div(Sub(p_max, p_j), Sqrt(radicand_inverse(riemann_data_j, p_max)))
  IN Sub(Add(Add(value_i, value_j), U(riemann_data_j)), U(riemann_data_i))

dphi(riemann_data_i, riemann_data_j, p) ==
  Add(df(riemann_data_i, p), df(riemann_data_j, p))

(***************************************************************************)
(* Wave speeds                                                              *)
(***************************************************************************)

\* factor = (gamma + 1) * 0.5 * gamma_inverse
lambda_factor == Mul(Mul(gamma + One, Half), gamma_inverse)

\* Mutant of lambda1_minus: the positive_part guard left out.
lambda1_minus_unguarded(riemann_data, p_star) ==
  LET p == P(riemann_data)
      tmp == Div(Sub(p_star, p), p)
  IN Sub(U(riemann_data),
         Mul(A(riemann_data), Sqrt(Add(One, Mul(lambda_factor, tmp)))))

lambda1_minus(riemann_data, p_star) ==
  LET p == P(riemann_data)
      tmp == positive_part(Div(Sub(p_star, p), p))
  IN Sub(U(riemann_data),
         Mul(A(riemann_data), Sqrt(Add(One, Mul(lambda_factor, tmp)))))

\* Mutant of lambda3_plus: the sign of the speed of sound slipped.
lambda3_plus_slipped(primitive_state, p_star) ==
  lambda1_minus(primitive_state, p_star)

lambda3_plus(primitive_state, p_star) ==
  LET p == P(primitive_state)
      tmp == positive_part(Div(Sub(p_star, p), p))
  IN Add(U(primitive_state),
         Mul(A(primitive_state), Sqrt(Add(One, Mul(lambda_factor, tmp)))))

\* Mutant of compute_gap: the gap as signed differences taken the wrong way
\* round, without std::abs.
compute_gap_signed(riemann_data_i, riemann_data_j, p_1, p_2) ==
  LET nu_11 == lambda1_minus(riemann_data_i, p_2)
      nu_12 == lambda1_minus(riemann_data_i, p_1)
      nu_31 == lambda3_plus(riemann_data_j, p_1)
      nu_32 == lambda3_plus(riemann_data_j, p_2)
      lambda_max == Max(positive_part(nu_32), negative_part(nu_11))
      gap == Max(Sub(nu_31, nu_32), Sub(nu_11, nu_12))
  IN <<gap, lambda_max>>

\* Mutant of compute_gap: positive_part in place of negative_part.
compute_gap_positive(riemann_data_i, riemann_data_j, p_1, p_2) ==
  LET nu_11 == lambda1_minus(riemann_data_i, p_2)
      nu_12 == lambda1_minus(riemann_data_i, p_1)
      nu_31 == lambda3_plus(riemann_data_j, p_1)
      nu_32 == lambda3_plus(riemann_data_j, p_2)
      lambda_max == Max(positive_part(nu_32), positive_part(nu_11))
      gap == Max(Abs(Sub(nu_32, nu_31)), Abs(Sub(nu_12, nu_11)))
  IN <<gap, lambda_max>>

\* Returns <<gap, lambda_max>>.
compute_gap(riemann_data_i, riemann_data_j, p_1, p_2) ==
  LET nu_11 == lambda1_minus(riemann_data_i, p_2)
      nu_12 == lambda1_minus(riemann_data_i, p_1)
      nu_31 == lambda3_plus(riemann_data_j, p_1)
      nu_32 == lambda3_plus(riemann_data_j, p_2)
      lambda_max == Max(positive_part(nu_32), negative_part(nu_11))
      gap == Max(Abs(Sub(nu_32, nu_31)), Abs(Sub(nu_12, nu_11)))
  IN <<gap, lambda_max>>

\* Mutant of compute_lambda: the smaller of the two speeds.
compute_lambda_smallest(riemann_data_i, riemann_data_j, p_star) ==
  LET nu_11 == lambda1_minus(riemann_data_i, p_star)
      nu_32 == lambda3_plus(riemann_data_j, p_star)
  IN Min(positive_part(nu_32), negative_part(nu_11))

\* Mutant of compute_lambda: positive_part in place of negative_part.
compute_lambda_positive(riemann_data_i, riemann_data_j, p_star) ==
  LET nu_11 == lambda1_minus(riemann_data_i, p_star)
      nu_32 == lambda3_plus(riemann_data_j, p_star)
  IN Max(positive_part(nu_32), positive_part(nu_11))

compute_lambda(riemann_data_i, riemann_data_j, p_star) ==
  LET nu_11 == lambda1_minus(riemann_data_i, p_star)
      nu_32 == lambda3_plus(riemann_data_j, p_star)
  IN Max(positive_part(nu_32), negative_part(nu_11))

\* Build-dependent: whether the floating-point value of the exponent
\* ScalarNumber(2.0) * gamma * gamma_minus_one_inverse is an integer.
VARIABLES exponent_is_integer

p_star_two_rarefaction(riemann_data_i, riemann_data_j) ==
  LET u_i == U(riemann_data_i)
      p_i == P(riemann_data_i)
      a_i == A(riemann_data_i)
      u_j == U(riemann_data_j)
      p_j == P(riemann_data_j)
      a_j == A(riemann_data_j)
      factor == Mul(gamma - One, Half)
      numerator == Sub(Add(a_i, a_j), Mul(factor, Sub(u_j, u_i)))
      \* exponent -factor * gamma_inverse = -(gamma - 1) / (2 gamma)
      denominator ==
        Add(Mul(a_i, Pow(Div(p_i, p_j), -(GammaNum - GammaDen), 2 * GammaNum)),
            a_j)
      \* exponent = 2 * gamma * gamma_minus_one_inverse
      exponent_num == 2 * GammaNum
      exponent_den == GammaNum - GammaDen
      ratio == Div(numerator, denominator)
  IN Mul(p_j, IF exponent_is_integer /\ exponent_num % exponent_den = 0
                THEN PowInteger(ratio, exponent_num \div exponent_den)
                ELSE Pow(ratio, exponent_num, exponent_den))

(***************************************************************************)
(* Configuration and the Newton helpers (riemann_solver.h, newton.h)        *)
(***************************************************************************)

\* Largest newton_max_iter_ the model configures.
MaxIter == 2

\* newton_eps<Number>: the tolerance of the Newton iteration, a fixed value
\* well above the round-off of one evaluation of phi.
newton_eps == 25

\* A value of type unsigned int (32 bits) as its <<high, low>> 16-bit halves.
Half16 == 65536
ToUnsigned(n) == <<(n \div Half16) % Half16, n % Half16>>

\* One quadratic Newton step on the bracket [p_1, p_2]: the set of brackets
\* <<t_1, t_2>> the step may produce.  Both ends are tightened towards the
\* root of the concave, increasing phi (t_1 by the tangents, t_2 by the
\* secant), and the bracket neither inverts nor expands:
\* p_1 <= t_1 <= t_2 <= p_2.
quadratic_newton_step(p_1, p_2, phi_p_1, phi_p_2, dphi_p_1, dphi_p_2) ==
  LET Clip(t) == Max(p_1, Min(p_2, t))
      tangent_1 == Sub(p_1, Div(phi_p_1, dphi_p_1))
      tangent_2 == Sub(p_2, Div(phi_p_2, dphi_p_2))
      secant ==
        Sub(p_2, Div(Mul(phi_p_2, Sub(p_2, p_1)), Sub(phi_p_2, phi_p_1)))
      lower == {p_1, Clip(Max(tangent_1, tangent_2))}
      upper == {p_2, Clip(secant)}
  IN {t \in lower \X upper : LessEq(p_1, t[1]) /\ LessEq(t[1], t[2])
                              /\ LessEq(t[2], p_2)}

(***************************************************************************)
(* RiemannSolver::compute(riemann_data_i, riemann_data_j)                   *)
(***************************************************************************)

VARIABLES
  riemann_data_i,   \* argument: primitive state [rho, u, p, a]
  riemann_data_j,   \* argument: primitive state [rho, u, p, a]
  newton_max_iter,  \* configuration newton_max_iter_
  greedy_dij,       \* configuration greedy_dij_
  check_bounds,     \* build option CHECK_BOUNDS
  pc,               \* position in compute
  p_min, p_max, p_star_tilde, phi_p_max,   \* locals of Step 1
  p_1, p_2,         \* the bracket
  gap, lambda_max,  \* locals of Step 2
  i,                \* loop counter
  steps,            \* calls of quadratic_newton_step so far
  result,           \* the returned tuple, <<>> until compute returns
  greedy_threshold, \* configuration greedy_threshold_
  caller_pc,        \* position in compute(U_i, U_j, n_ij, hd_i), the caller
  caller_lambda_max,  \* its local lambda_max
  lambda_greedy,    \* its local lambda_greedy
  limiter_calls,    \* calls of Limiter::limit so far
  returned,         \* the tuple it returns, <<>> until it returns
  hd_i,             \* argument: the local length scale
  greedy_relax_bounds,  \* configuration greedy_relax_bounds_
  bounds,           \* the bounds handed to Limiter::limit, <<>> before
  suspended,        \* the locals of a concurrent evaluation of another edge
  alone,            \* for each edge, what compute returns evaluated alone
  conserved_U,      \* riemann_data_from_state: argument U = [rho, m, E]
  n_ij,             \* riemann_data_from_state: argument n_ij
  projected_data,   \* riemann_data_from_state: the array it returns
  configuration_,   \* InitialValues: parameter "configuration"
  initial_direction_,  \* InitialValues: parameter "initial - direction"
  initial_1d_state_,   \* InitialValues: parameter "initial - 1d state"
  perturbation_,    \* InitialValues: parameter "perturbation"
  initial_state_,   \* InitialValues: the installed initial-state function
  callback_pc,      \* position in InitialValues::parse_parameters_callback
  dim,              \* InitialValues: template parameter dim
  batch,            \* per lane: the arguments and locals of compute
  batch_i,          \* the loop counter of the batch
  batch_pc,         \* position of the batch in compute
  batch_returned    \* per lane: the tuple returned, <<>> until it returns

\* The locals of compute(U_i, U_j, n_ij, hd_i).
caller ==
  <<caller_pc, caller_lambda_max, lambda_greedy, limiter_calls, returned,
    bounds>>

\* The state of riemann_data_from_state and of InitialValues.
projector == <<conserved_U, n_ij, projected_data>>
initial_values ==
  <<configuration_, initial_direction_, initial_1d_state_, perturbation_,
    initial_state_, callback_pc, dim>>
batch_vars == <<batch, batch_i, batch_pc, batch_returned>>
elsewhere == <<suspended, alone, projector, initial_values, batch_vars>>

vars ==
  <<riemann_data_i, riemann_data_j, newton_max_iter, greedy_dij, check_bounds,
    exponent_is_integer, pc, p_min, p_max, p_star_tilde, phi_p_max, p_1, p_2, gap, lambda_max, i,
    steps, result, greedy_threshold, caller, hd_i, greedy_relax_bounds,
    suspended, alone, projector, initial_values, batch_vars>>

config ==
  <<newton_max_iter, greedy_dij, check_bounds, exponent_is_integer,
    greedy_threshold, greedy_relax_bounds>>
arguments == <<riemann_data_i, riemann_data_j, hd_i>>

\* Inputs: primitive states with rho, p > 0 and a consistent speed of sound.
PrimitiveState(rho, u, p) == <<rho, u, p, speed_of_sound(rho, p)>>

Densities == {Scale \div 8, Scale}
Velocities == {-((4 * Scale) \div 5), 0, (4 * Scale) \div 5}
Pressures == {Scale \div 10, Scale}

ModerateStates ==
  {PrimitiveState(rho, u, p) : rho \in Densities, u \in Velocities,
                               p \in Pressures}

\* Two states receding so fast that a vacuum forms between them:
\* u_j - u_i > 2 / (gamma - 1) * (a_i + a_j).
VacuumPairs ==
  {<<PrimitiveState(Scale, -4 * Scale, Scale \div 10),
     PrimitiveState(Scale, 4 * Scale, p)>> : p \in {Scale \div 10, Scale \div 5}}

InputPairs == (ModerateStates \X ModerateStates) \cup VacuumPairs

\* The configured values of greedy_threshold_.
GreedyThresholds == {Scale \div 10, Scale}

\* No other evaluation runs concurrently.
NoneSuspended == suspended = <<>> /\ alone = <<>>

\* riemann_data_from_state is not being evaluated.
ProjectorIdle == conserved_U = <<>> /\ n_ij = <<>> /\ projected_data = <<>>

\* No batch is being evaluated.
BatchIdle ==
  batch = <<>> /\ batch_i = 0 /\ batch_pc = "idle" /\ batch_returned = <<>>

\* No InitialValues object is being set up.
InitialValuesIdle ==
  /\ configuration_ = "" /\ initial_direction_ = <<>>
  /\ initial_1d_state_ = <<>> /\ perturbation_ = 0
  /\ initial_state_ = <<>>
  /\ callback_pc = "idle" /\ dim = 0

\* The value of exponent_is_integer makes a difference only where the
\* two-rarefaction estimate raises a negative number to its power; the other
\* pairs are run with one of its values.
Init ==
  /\ \E pair \in InputPairs :
       /\ riemann_data_i = pair[1] /\ riemann_data_j = pair[2]
       /\ exponent_is_integer \in
            (IF pair \in VacuumPairs THEN BOOLEAN ELSE {FALSE})
  /\ newton_max_iter \in 0..MaxIter
  /\ greedy_dij \in BOOLEAN
  /\ check_bounds \in BOOLEAN
  /\ greedy_threshold \in (IF greedy_dij THEN GreedyThresholds ELSE {Scale})
  /\ caller_pc = "called" /\ caller_lambda_max = 0 /\ lambda_greedy = 0
  /\ limiter_calls = 0
  /\ returned = <<>>
  /\ hd_i = 0 /\ greedy_relax_bounds = FALSE /\ bounds = <<>>
  /\ pc = "start"
  /\ p_min = 0 /\ p_max = 0 /\ p_star_tilde = 0 /\ phi_p_max = 0
  /\ p_1 = 0 /\ p_2 = 0 /\ gap = 0 /\ lambda_max = 0
  /\ i = 0 /\ steps = 0
  /\ result = <<>>
  /\ NoneSuspended /\ ProjectorIdle /\ InitialValuesIdle /\ BatchIdle

\* Step 1: the candidates and the upper end p_2 of the bracket.
SelectUpper ==
  /\ pc = "start"
  /\ p_min' = Min(P(riemann_data_i), P(riemann_data_j))
  /\ p_max' = Max(P(riemann_data_i), P(riemann_data_j))
  /\ p_star_tilde' = p_star_two_rarefaction(riemann_data_i, riemann_data_j)
  /\ phi_p_max' = phi_of_p_max(riemann_data_i, riemann_data_j)
  /\ p_2' = SelectLess(phi_p_max', 0, p_star_tilde', Min(p_max', p_star_tilde'))
  /\ pc' = "upper_selected"
  /\ UNCHANGED <<arguments, config, elsewhere, caller, p_1, gap, lambda_max, i, steps, result>>

\* if constexpr (newton_max_iter_ == 0): no Newton iteration.
ReturnWithoutIteration ==
  /\ pc = "upper_selected"
  /\ newton_max_iter = 0
  /\ lambda_max' = compute_lambda(riemann_data_i, riemann_data_j, p_2)
  /\ result' = <<lambda_max', p_2, ToUnsigned(-1)>>
  /\ pc' = "done"
  /\ UNCHANGED <<arguments, config, elsewhere, caller, p_min, p_max, p_star_tilde, phi_p_max,
                 p_1, p_2, gap, i, steps>>

\* The lower end p_1 of the bracket.
SelectLower ==
  /\ pc = "upper_selected"
  /\ newton_max_iter # 0
  /\ p_1' = SelectLess(phi_p_max, 0, p_max, p_min)
  /\ pc' = "lower_selected"
  /\ UNCHANGED <<arguments, config, elsewhere, caller, p_min, p_max, p_star_tilde, phi_p_max,
                 p_2, gap, lambda_max, i, steps, result>>

\* Mutants of the clamp: p_1 <- 0 as the Step 1 comment words it, and no
\* clamp at all.
ClampedLowerToZero(lo, hi) == SelectLessEq(lo, hi, lo, 0)

\* Ensure that p_1 <= p_2.
ClampedLower(lo, hi) == SelectLessEq(lo, hi, lo, hi)

\* The clamp of p_1, the first gap, and the start of the loop.
ClampLower ==
  /\ pc = "lower_selected"
  /\ p_1' = ClampedLower(p_1, p_2)
  /\ LET g == compute_gap(riemann_data_i, riemann_data_j, p_1', p_2)
     IN gap' = g[1] /\ lambda_max' = g[2]
  /\ i' = 0
  /\ pc' = "newton"
  /\ UNCHANGED <<arguments, config, elsewhere, caller, p_min, p_max, p_star_tilde, phi_p_max,
                 p_2, steps, result>>

\* Mutant of the loop condition: off by one.
LoopConditionOffByOne(count, limit) == count <= limit

\* The loop condition i < newton_max_iter_.
LoopCondition(count, limit) == count < limit

\* Mutant of the tolerance test: the operands of the difference exchanged.
ToleranceReachedExchanged(g) == Max(0, Sub(newton_eps, g)) = 0

\* std::max(Number(0.), gap - newton_eps) == Number(0.)
ToleranceReached(g) == Max(0, Sub(g, newton_eps)) = 0

\* One pass through the loop body.
NewtonStep ==
  /\ pc = "newton"
  /\ LoopCondition(i, newton_max_iter)
  /\ ~ToleranceReached(gap)
  /\ LET phi_p_1 == phi(riemann_data_i, riemann_data_j, p_1)
         phi_p_2 == phi(riemann_data_i, riemann_data_j, p_2)
         dphi_p_1 == dphi(riemann_data_i, riemann_data_j, p_1)
         dphi_p_2 == dphi(riemann_data_i, riemann_data_j, p_2)
     IN \E t \in quadratic_newton_step(p_1, p_2, phi_p_1, phi_p_2,
                                       dphi_p_1, dphi_p_2) :
          /\ p_1' = t[1]
          /\ p_2' = t[2]
          /\ LET g == compute_gap(riemann_data_i, riemann_data_j, t[1], t[2])
             IN gap' = g[1] /\ lambda_max' = g[2]
  /\ steps' = steps + 1
  /\ i' = i + 1
  /\ UNCHANGED <<arguments, config, elsewhere, caller, pc, p_min, p_max, p_star_tilde, phi_p_max,
                 result>>

\* The validation of CHECK_BOUNDS builds: phi(p_2) >= -newton_eps.
BoundsCheckPasses ==
  GreaterEq(phi(riemann_data_i, riemann_data_j, p_2), -newton_eps)

\* The loop is left (tolerance reached or budget used up) and compute returns.
Return ==
  /\ pc = "newton"
  /\ ~LoopCondition(i, newton_max_iter) \/ ToleranceReached(gap)
  /\ IF greedy_dij
       THEN result' = <<p_1, p_2, ToUnsigned(i)>> /\ pc' = "done"
       ELSE IF check_bounds /\ ~BoundsCheckPasses
         THEN result' = <<>> /\ pc' = "invalid_state"
         ELSE result' = <<lambda_max, p_2, ToUnsigned(i)>> /\ pc' = "done"
  /\ UNCHANGED <<arguments, config, elsewhere, caller, p_min, p_max, p_star_tilde, phi_p_max,
                 p_1, p_2, gap, lambda_max, i, steps>>

(***************************************************************************)
(* Step 3: bounds for the limiter                                           *)
(***************************************************************************)

\* ProblemDescription::gamma_minus_one_over_gamma_plus_one
gamma_minus_one_over_gamma_plus_one == Div(gamma - One, gamma + One)

\* The densities behind a shock at pressure p_1 and behind an expansion to
\* pressure p_2, for the state of smaller and the state of larger pressure:
\* [rho_p_min_shk, rho_p_max_shk, rho_p_min_exp, rho_p_max_exp].
shock_and_expansion_density(p_min_, p_max_, rho_p_min, rho_p_max, p_1_, p_2_) ==
  LET gm1_gp2 == gamma_minus_one_over_gamma_plus_one
      rho_p_min_shk ==
        Div(Mul(rho_p_min, Add(Mul(gm1_gp2, p_min_), p_1_)),
            Add(Mul(gm1_gp2, p_1_), p_min_))
      rho_p_max_shk ==
        Div(Mul(rho_p_min, Add(Mul(gm1_gp2, p_max_), p_1_)),
            Add(Mul(gm1_gp2, p_1_), p_max_))
      rho_p_min_exp ==
        Mul(rho_p_min, Pow(Div(p_2_, p_min_), GammaDen, GammaNum))
      rho_p_max_exp ==
        Mul(rho_p_max, Pow(Div(p_2_, p_max_), GammaDen, GammaNum))
  IN <<rho_p_min_shk, rho_p_max_shk, rho_p_min_exp, rho_p_max_exp>>

\* Mutant of the density bounds: the estimates alone, without the densities
\* of the two states.
density_bounds_of_estimates(rho_p_min, rho_p_max, estimates) ==
  <<Min(estimates[3], estimates[4]), Max(estimates[1], estimates[2])>>

\* rho_min and rho_max: the two densities, widened by the expansion and the
\* shock estimates.
density_bounds(rho_p_min, rho_p_max, estimates) ==
  LET rho_min == Min(rho_p_min, rho_p_max)
      rho_max == Max(rho_p_min, rho_p_max)
  IN <<Min(rho_min, Min(estimates[3], estimates[4])),
       Max(rho_max, Max(estimates[1], estimates[2]))>>

\* s = rho_e * rho^(-gamma) with rho_e = p / (gamma - 1)
specific_entropy(rho, p) ==
  Mul(Mul(p, gamma_minus_one_inverse), Pow(rho, -GammaNum, GammaDen))

\* salpha = (rho_e * rho)^(1 / (gamma + 1))
salpha(rho, p) ==
  Pow(Mul(Mul(p, gamma_minus_one_inverse), rho), GammaDen, GammaNum + GammaDen)

\* compute_bounds: [rho_min, rho_max, s_min, a, b].
compute_bounds(state_i, state_j, p_1_, p_2_) ==
  LET p_min_ == Min(P(state_i), P(state_j))
      p_max_ == Max(P(state_i), P(state_j))
      rho_p_min ==
        SelectLess(P(state_i), P(state_j), Rho(state_i), Rho(state_j))
      rho_p_max ==
        SelectLess(P(state_i), P(state_j), Rho(state_j), Rho(state_i))
      estimates ==
        shock_and_expansion_density(p_min_, p_max_, rho_p_min, rho_p_max,
                                    p_1_, p_2_)
      rho == density_bounds(rho_p_min, rho_p_max, estimates)
      s_i == specific_entropy(Rho(state_i), P(state_i))
      salpha_i == salpha(Rho(state_i), P(state_i))
      s_j == specific_entropy(Rho(state_j), P(state_j))
      salpha_j == salpha(Rho(state_j), P(state_j))
      s_min == Min(s_i, s_j)
      a == Mul(Half, Add(salpha_i, salpha_j))
      b == Mul(Half, Sub(Mul(U(state_i), salpha_i), Mul(U(state_j), salpha_j)))
  IN <<rho[1], rho[2], s_min, a, b>>

\* Mutant of the relaxation: all five bounds are scaled.
relaxed_throughout(unrelaxed, relax, hd) ==
  IF relax
    THEN LET factor == Sub(One, hd)
         IN [k \in 1..5 |-> Mul(unrelaxed[k], factor)]
    ELSE unrelaxed

\* if constexpr (greedy_relax_bounds_): the entropy bounds times 1 - hd_i.
relaxed(unrelaxed, relax, hd) ==
  IF relax
    THEN LET factor == Sub(One, hd)
         IN <<unrelaxed[1], unrelaxed[2], Mul(unrelaxed[3], factor),
              Mul(unrelaxed[4], factor), Mul(unrelaxed[5], factor)>>
    ELSE unrelaxed

(***************************************************************************)
(* RiemannSolver::compute(U_i, U_j, n_ij, hd_i), the caller of the above    *)
(***************************************************************************)

\* The locals of compute(riemann_data_i, riemann_data_j).
callee ==
  <<pc, p_min, p_max, p_star_tilde, phi_p_max, p_1, p_2, gap, lambda_max, i,
    steps, result>>

\* std::numeric_limits<ScalarNumber>::epsilon(): the distance from 1.0 to the
\* next Number.
epsilon == 1

\* The test that lets the greedy minimizer run:
\* !(std::max(Number(0.), rho_max * greedy_threshold_ - rho_min + eps)
\*     == Number(0.))
GreedyRuns(rho_min, rho_max) ==
  ~(Max(0, Add(Sub(Mul(rho_max, greedy_threshold), rho_min), epsilon)) = 0)

\* Limiter::limit<entropy_inequality>(bounds, U, P, t_min, t_max): the values
\* the search over [t_min, t_max] may return, among them values outside the
\* interval.
LimiterOutcomes(t_min, t_max) ==
  {Div(t_min, Two), t_min, Mul(t_min, Two), t_max}

\* The validation of CHECK_BOUNDS builds:
\* lambda_max - lambda_greedy > -100. * newton_eps
GreedyCheckPasses(lambda, greedy) ==
  Less(Mul(-100 * Scale, newton_eps), Sub(lambda, greedy))

\* Mutant of the reported greedy bound: the larger of the two.
GreedyBoundLargest(greedy, lambda) == Max(greedy, lambda)

\* std::min(lambda_greedy, lambda_max)
GreedyBound(greedy, lambda) == Min(greedy, lambda)

\* if constexpr (!greedy_dij_) return compute(riemann_data_i, riemann_data_j);
ReturnPrimitive ==
  /\ caller_pc = "called"
  /\ pc = "done"
  /\ ~greedy_dij
  /\ returned' = result
  /\ caller_pc' = "returned"
  /\ UNCHANGED <<arguments, config, elsewhere, callee, caller_lambda_max, lambda_greedy,
                 limiter_calls, bounds>>

\* Greedy, but the densities do not differ enough: cut it short.
GreedyShortCircuit ==
  /\ caller_pc = "called"
  /\ pc = "done"
  /\ greedy_dij
  /\ ~GreedyRuns(Min(Rho(riemann_data_i), Rho(riemann_data_j)),
                 Max(Rho(riemann_data_i), Rho(riemann_data_j)))
  /\ caller_lambda_max' =
       compute_lambda(riemann_data_i, riemann_data_j, result[2])
  /\ returned' = <<caller_lambda_max', result[2], result[3]>>
  /\ caller_pc' = "returned"
  /\ UNCHANGED <<arguments, config, elsewhere, callee, lambda_greedy, limiter_calls,
                 bounds>>

\* Greedy: the limiter search for lambda_greedy and the reported minimum.
GreedyRefine ==
  /\ caller_pc = "called"
  /\ pc = "done"
  /\ greedy_dij
  /\ GreedyRuns(Min(Rho(riemann_data_i), Rho(riemann_data_j)),
                Max(Rho(riemann_data_i), Rho(riemann_data_j)))
  /\ caller_lambda_max' =
       compute_lambda(riemann_data_i, riemann_data_j, result[2])
  /\ bounds' = relaxed(compute_bounds(riemann_data_i, riemann_data_j,
                                      result[1], result[2]),
                       greedy_relax_bounds, hd_i)
  /\ \E lambda_greedy_inverse \in
          LimiterOutcomes(Div(One, caller_lambda_max'),
                          Div(1000 * Scale, caller_lambda_max')) :
       lambda_greedy' = Div(One, lambda_greedy_inverse)
  /\ limiter_calls' = limiter_calls + 1
  /\ IF check_bounds /\ ~GreedyCheckPasses(caller_lambda_max', lambda_greedy')
       THEN returned' = <<>> /\ caller_pc' = "garbled_lambda_greedy"
       ELSE /\ returned' = <<GreedyBound(lambda_greedy', caller_lambda_max'),
                             result[2], result[3]>>
            /\ caller_pc' = "returned"
  /\ UNCHANGED <<arguments, config, elsewhere, callee>>

Next ==
  \/ SelectUpper
  \/ ReturnWithoutIteration
  \/ SelectLower
  \/ ClampLower
  \/ NewtonStep
  \/ Return
  \/ ReturnPrimitive
  \/ GreedyShortCircuit
  \/ GreedyRefine

Spec == Init /\ [][Next]_vars

(***************************************************************************)
(* riemann_data_from_state(U, n_ij), for dim = 2                            *)
(***************************************************************************)

\* Tensor<1, dim>: scalar product, summed from the first component on.
RECURSIVE DotUpTo(_, _, _)
DotUpTo(v, w, k) ==
  IF k = 1 THEN Mul(v[1], w[1])
  ELSE Add(DotUpTo(v, w, k - 1), Mul(v[k], w[k]))
Dot(v, w) == DotUpTo(v, w, Len(v))

\* Tensor<1, 2>: difference, multiple; Tensor<1, dim>: norm_square.
Minus(v, w) == <<Sub(v[1], w[1]), Sub(v[2], w[2])>>
Times(s, v) == <<Mul(s, v[1]), Mul(s, v[2])>>
norm_square(v) == Dot(v, v)

\* ProblemDescription<dim>::momentum of a state [rho, m_1, ..., m_dim, E].
momentum(state) == SubSeq(state, 2, Len(state) - 1)

\* ProblemDescription<1>::pressure of a state [rho, m, E]:
\* (gamma - 1) * (E - 0.5 * m^2 / rho).
pressure(state) ==
  Mul(gamma - One,
      Sub(state[3],
          Mul(Mul(Half, Mul(state[2], state[2])), Div(One, state[1]))))

\* The transverse momentum m - (n_ij * m) n_ij.
perp(state, n) ==
  Minus(momentum(state), Times(Dot(n, momentum(state)), n))

\* Mutant of projected_state: the energy is not reduced.
projected_state_full_energy(state, n) ==
  <<state[1], Dot(n, momentum(state)), state[4]>>

\* The state of the 1D Riemann problem in direction n_ij.
projected_state(state, n) ==
  LET rho_inverse == Div(One, state[1])
  IN <<state[1],
       Dot(n, momentum(state)),
       Sub(state[4],
           Mul(Mul(Half, norm_square(perp(state, n))), rho_inverse))>>

\* The Riemann data [rho, u, p, a].
riemann_data_from_state(state, n) ==
  LET rho_inverse == Div(One, state[1])
      projected == projected_state(state, n)
  IN <<projected[1],
       Mul(projected[2], rho_inverse),
       pressure(projected),
       speed_of_sound(projected[1], pressure(projected))>>

\* Inputs: admissible states (rho > 0, positive internal energy) and unit
\* directions.
ProjectorDensities == {Scale \div 2, Scale, 2 * Scale}
ProjectorMomenta ==
  {-((4 * Scale) \div 5), -((3 * Scale) \div 5), 0, (3 * Scale) \div 5,
   (4 * Scale) \div 5, Scale}
ProjectorEnergies == {3 * Scale, 5 * Scale}
ConservedStates ==
  {<<rho, m_1, m_2, E>> : rho \in ProjectorDensities,
                          m_1 \in ProjectorMomenta, m_2 \in ProjectorMomenta,
                          E \in ProjectorEnergies}
UnitDirections ==
  {<<Scale, 0>>, <<0, Scale>>, <<-Scale, 0>>, <<0, -Scale>>,
   <<(3 * Scale) \div 5, (4 * Scale) \div 5>>,
   <<-((3 * Scale) \div 5), -((4 * Scale) \div 5)>>,
   <<(4 * Scale) \div 5, -((3 * Scale) \div 5)>>,
   <<-((4 * Scale) \div 5), (3 * Scale) \div 5>>}

\* compute is not being evaluated.
SolverIdle ==
  /\ riemann_data_i = <<>> /\ riemann_data_j = <<>>
  /\ newton_max_iter = 0 /\ greedy_dij = FALSE /\ check_bounds = FALSE
  /\ exponent_is_integer = FALSE /\ greedy_threshold = Scale
  /\ caller_pc = "idle" /\ caller_lambda_max = 0 /\ lambda_greedy = 0
  /\ limiter_calls = 0 /\ returned = <<>>
  /\ hd_i = 0 /\ greedy_relax_bounds = FALSE /\ bounds = <<>>
  /\ pc = "idle"
  /\ p_min = 0 /\ p_max = 0 /\ p_star_tilde = 0 /\ phi_p_max = 0
  /\ p_1 = 0 /\ p_2 = 0 /\ gap = 0 /\ lambda_max = 0
  /\ i = 0 /\ steps = 0
  /\ result = <<>>

InitProjector ==
  /\ conserved_U \in ConservedStates
  /\ n_ij \in UnitDirections
  /\ projected_data = <<>>
  /\ SolverIdle /\ NoneSuspended /\ InitialValuesIdle /\ BatchIdle

\* The call of riemann_data_from_state.
Project ==
  /\ conserved_U # <<>>
  /\ projected_data = <<>>
  /\ projected_data' = riemann_data_from_state(conserved_U, n_ij)
  /\ UNCHANGED <<arguments, config, callee, caller, suspended, alone, batch_vars,
                 conserved_U, n_ij, initial_values>>

NextProjector == Project

SpecProjector == InitProjector /\ [][NextProjector]_vars

(***************************************************************************)
(* InitialValues<dim> (initial_values.template.h)                           *)
(***************************************************************************)

\* The parameters that keep their default values.
initial_1d_state_contrast_ == <<gamma, 3 * Scale, Scale>>
initial_mach_number_ == 2 * Scale
initial_vortex_beta_ == 5 * Scale

\* Tensor<1, dim>::norm().
norm(v) == Sqrt(norm_square(v))

\* Mutant of normalized: the direction divided by its norm_square.
normalized_by_norm_square(direction) ==
  [k \in 1..Len(direction) |-> Div(direction[k], norm_square(direction))]

\* initial_direction_ /= initial_direction_.norm()
normalized(direction) ==
  [k \in 1..Len(direction) |-> Div(direction[k], norm(direction))]

\* The lambda from_1d_state: a 1D state (rho, u, p) as a state of the
\* dimension of the direction.
from_1d_state(state_1d, direction) ==
  LET rho == state_1d[1]
      u == state_1d[2]
      p == state_1d[3]
  IN <<rho>> \o
     [k \in 1..Len(direction) |-> Mul(Mul(rho, u), direction[k])] \o
     <<Add(Div(p, gamma - One), Mul(Mul(Mul(Half, rho), u), u))>>

\* "shock front": the state behind the front, from the Mach number.
initial_1d_state_L(state_R) ==
  LET rho_R == state_R[1]
      u_R == state_R[2]
      p_R == state_R[3]
      mach_S == initial_mach_number_
      a_R == speed_of_sound(rho_R, p_R)
      mach_R == Div(u_R, a_R)
      S3 == Mul(mach_S, a_R)
      delta_mach == Sub(mach_R, mach_S)
      square == Mul(delta_mach, delta_mach)
      rho_L == Div(Mul(Mul(rho_R, gamma + One), square),
                   Add(Mul(gamma - One, square), Two))
      u_L == Add(Mul(Sub(One, Div(rho_R, rho_L)), S3),
                 Mul(Div(rho_R, rho_L), u_R))
      p_L == Div(Mul(p_R, Sub(Mul(Mul(Two, gamma), square), gamma - One)),
                 gamma + One)
  IN <<rho_L, u_L, p_L>>

\* "sod contrast": the two states of the Sod shock tube.
sod_1d_state_L == <<Scale \div 8, 0, Scale \div 10>>
sod_1d_state_R == <<Scale, 0, Scale>>

\* 2 pi and exp(0.5) as Numbers.
two_pi == 6283
exp_half == 1649

\* "isentropic vortex": the state at the centre of the vortex at t = 0
\* (point_bar = 0).
vortex_state(direction) ==
  LET factor == Mul(Div(initial_vortex_beta_, two_pi), exp_half)
      T == Sub(One, Mul(Mul(Div(gamma - One, Mul(Two, gamma)), factor),
                        factor))
      u == Sub(Mul(direction[1], initial_mach_number_), Mul(factor, 0))
      v == Add(Mul(direction[2], initial_mach_number_), Mul(factor, 0))
      rho == Pow(T, GammaDen, GammaNum - GammaDen)
      p == Pow(rho, GammaNum, GammaDen)
      E == Add(Div(p, gamma - One),
               Mul(Mul(Half, rho), Add(Mul(u, u), Mul(v, v))))
  IN <<rho, Mul(rho, u), Mul(rho, v), E>>

\* Mutant of initial_state_of: "sod contrast" is not among the names.
initial_state_of_four(configuration, direction, state_1d) ==
  CASE configuration = "uniform" ->
         <<from_1d_state(state_1d, direction),
           from_1d_state(state_1d, direction)>>
    [] configuration = "shock front" ->
         <<from_1d_state(state_1d, direction),
           from_1d_state(initial_1d_state_L(state_1d), direction)>>
    [] configuration = "contrast" ->
         <<from_1d_state(state_1d, direction),
           from_1d_state(initial_1d_state_contrast_, direction)>>
    [] configuration = "isentropic vortex" ->
         <<vortex_state(direction), vortex_state(direction)>>
    [] OTHER -> <<>>

\* The function object initial_state_ of a configuration, as the states it
\* returns <<for position_1d > 0, otherwise>>; <<>> for an unknown
\* configuration.
initial_state_of(configuration, direction, state_1d) ==
  CASE configuration = "uniform" ->
         <<from_1d_state(state_1d, direction),
           from_1d_state(state_1d, direction)>>
    [] configuration = "shock front" ->
         <<from_1d_state(state_1d, direction),
           from_1d_state(initial_1d_state_L(state_1d), direction)>>
    [] configuration = "contrast" ->
         <<from_1d_state(state_1d, direction),
           from_1d_state(initial_1d_state_contrast_, direction)>>
    [] configuration = "sod contrast" ->
         <<from_1d_state(sod_1d_state_L, direction),
           from_1d_state(sod_1d_state_R, direction)>>
    [] configuration = "isentropic vortex" ->
         <<vortex_state(direction), vortex_state(direction)>>
    [] OTHER -> <<>>

\* The values the parameter file may give.
Configurations ==
  {"uniform", "shock front", "contrast", "sod contrast", "isentropic vortex",
   "unknown"}
Dimensions == {1, 2, 3}
Directions1 == {<<0>>, <<Scale>>, <<-2 * Scale>>}
Directions3 ==
  {<<0, 0, 0>>, <<Scale, 0, 0>>, <<0, 0, -Scale>>,
   <<Scale, 2 * Scale, 2 * Scale>>}
Directions ==
  {<<0, 0>>, <<Scale, 0>>, <<0, Scale>>, <<3 * Scale, 4 * Scale>>,
   <<-3 * Scale, -4 * Scale>>, <<(3 * Scale) \div 5, (4 * Scale) \div 5>>,
   <<2 * Scale, 0>>, <<0, -(Scale \div 2)>>, <<Scale, Scale>>}
DirectionsOf(d) ==
  CASE d = 1 -> Directions1 [] d = 2 -> Directions [] d = 3 -> Directions3
States1d == {<<gamma, 3 * Scale, Scale>>, <<Scale, 0, Scale>>}
Perturbations == {0, Scale \div 100}

\* The constructor: the default values, no initial_state_ yet.
InitInitialValues ==
  /\ dim \in Dimensions
  /\ configuration_ = "uniform"
  /\ initial_direction_ = [k \in 1..dim |-> IF k = 1 THEN Scale ELSE 0]
  /\ initial_1d_state_ = <<gamma, 3 * Scale, Scale>>
  /\ perturbation_ = 0
  /\ initial_state_ = <<>>
  /\ callback_pc = "constructed"
  /\ SolverIdle /\ NoneSuspended /\ ProjectorIdle /\ BatchIdle

\* ParameterAcceptor reads the parameters and calls the callback.
ParseParameters ==
  /\ callback_pc = "constructed"
  /\ configuration_' \in Configurations
  /\ initial_direction_' \in DirectionsOf(dim)
  /\ initial_1d_state_' \in States1d
  /\ perturbation_' \in Perturbations
  /\ callback_pc' = "parsed"
  /\ UNCHANGED <<arguments, config, callee, caller, suspended, alone, batch_vars,
                 projector, dim,
                 initial_state_>>

\* parse_parameters_callback: AssertThrow on the zero vector, else normalize.
NormalizeDirection ==
  /\ callback_pc = "parsed"
  /\ IF ~(norm(initial_direction_) # 0)
       THEN callback_pc' = "zero_direction" /\ UNCHANGED initial_direction_
       ELSE /\ initial_direction_' = normalized(initial_direction_)
            /\ callback_pc' = "normalized"
  /\ UNCHANGED <<arguments, config, callee, caller, suspended, alone, batch_vars,
                 projector, dim,
                 configuration_, initial_1d_state_, perturbation_,
                 initial_state_>>

\* parse_parameters_callback: populate initial_state_, or AssertThrow on an
\* unknown configuration and on the vortex outside dim = 2.
InstallInitialState ==
  /\ callback_pc = "normalized"
  /\ IF configuration_ = "isentropic vortex" /\ dim # 2
       THEN callback_pc' = "not_implemented" /\ UNCHANGED initial_state_
       ELSE LET installed ==
                  initial_state_of(configuration_, initial_direction_,
                                   initial_1d_state_)
            IN IF installed = <<>>
                 THEN callback_pc' = "unknown_initial_state"
                      /\ UNCHANGED initial_state_
                 ELSE initial_state_' = <<installed[1], installed[2], 0>>
                      /\ callback_pc' = "installed"
  /\ UNCHANGED <<arguments, config, callee, caller, suspended, alone, batch_vars,
                 projector, dim,
                 configuration_, initial_direction_, initial_1d_state_,
                 perturbation_>>

\* parse_parameters_callback: wrap initial_state_ in the random perturbation.
AddPerturbation ==
  /\ callback_pc = "installed"
  /\ IF perturbation_ # 0
       THEN initial_state_' =
              <<initial_state_[1], initial_state_[2], perturbation_>>
       ELSE UNCHANGED initial_state_
  /\ callback_pc' = "done"
  /\ UNCHANGED <<arguments, config, callee, caller, suspended, alone, batch_vars,
                 projector, dim,
                 configuration_, initial_direction_, initial_1d_state_,
                 perturbation_>>

NextInitialValues ==
  \/ ParseParameters
  \/ NormalizeDirection
  \/ InstallInitialState
  \/ AddPerturbation

SpecInitialValues == InitInitialValues /\ [][NextInitialValues]_vars

(***************************************************************************)
(* Concurrent evaluations of compute: two threads, each working through     *)
(* the edges it is given with its own automatic variables                   *)
(***************************************************************************)

\* The arguments and automatic variables of the evaluation that takes the
\* next step.
Context ==
  <<riemann_data_i, riemann_data_j, pc, p_min, p_max, p_star_tilde,
    phi_p_max, p_1, p_2, gap, lambda_max, i, steps, result, caller_pc,
    caller_lambda_max, lambda_greedy, limiter_calls, returned, bounds, hd_i>>

\* The context of a call of compute(U_i, U_j, n_ij, hd_i) at its entry.
FreshContext(pair) ==
  <<pair[1], pair[2], "start", 0, 0, 0, 0, 0, 0, 0, 0, 0, 0, <<>>, "called",
    0, 0, 0, <<>>, <<>>, 0>>

\* Mutant of Resume: p_2 lives in storage shared by the evaluations.
ResumeSharingUpperEnd(context) ==
  /\ riemann_data_i' = context[1] /\ riemann_data_j' = context[2]
  /\ pc' = context[3] /\ p_min' = context[4] /\ p_max' = context[5]
  /\ p_star_tilde' = context[6] /\ phi_p_max' = context[7]
  /\ p_1' = context[8] /\ p_2' = p_2 /\ gap' = context[10]
  /\ lambda_max' = context[11] /\ i' = context[12] /\ steps' = context[13]
  /\ result' = context[14] /\ caller_pc' = context[15]
  /\ caller_lambda_max' = context[16] /\ lambda_greedy' = context[17]
  /\ limiter_calls' = context[18] /\ returned' = context[19]
  /\ bounds' = context[20] /\ hd_i' = context[21]

\* The evaluation with this context takes the next step: every automatic
\* variable is its own.
Resume(context) ==
  /\ riemann_data_i' = context[1] /\ riemann_data_j' = context[2]
  /\ pc' = context[3] /\ p_min' = context[4] /\ p_max' = context[5]
  /\ p_star_tilde' = context[6] /\ phi_p_max' = context[7]
  /\ p_1' = context[8] /\ p_2' = context[9] /\ gap' = context[10]
  /\ lambda_max' = context[11] /\ i' = context[12] /\ steps' = context[13]
  /\ result' = context[14] /\ caller_pc' = context[15]
  /\ caller_lambda_max' = context[16] /\ lambda_greedy' = context[17]
  /\ limiter_calls' = context[18] /\ returned' = context[19]
  /\ bounds' = context[20] /\ hd_i' = context[21]

\* The upper end p_2 of the initial bracket as Step 1 selects it.
UpperEnd(state_i, state_j) ==
  LET tilde == p_star_two_rarefaction(state_i, state_j)
  IN SelectLess(phi_of_p_max(state_i, state_j), 0, tilde,
                Min(Max(P(state_i), P(state_j)), tilde))

\* The lower end p_1 of the initial bracket, clamped.
LowerEnd(state_i, state_j) ==
  ClampedLower(SelectLess(phi_of_p_max(state_i, state_j), 0,
                          Max(P(state_i), P(state_j)),
                          Min(P(state_i), P(state_j))),
               UpperEnd(state_i, state_j))

\* The states <<p_1, p_2, i, lambda_max>> in which the Newton loop of
\* compute(state_i, state_j) can be left, when it is entered with the
\* bracket [lower, upper] and the count i.
RECURSIVE LoopExits(_, _, _, _, _)
LoopExits(state_i, state_j, lower, upper, count) ==
  LET g == compute_gap(state_i, state_j, lower, upper)
  IN IF ~LoopCondition(count, newton_max_iter) \/ ToleranceReached(g[1])
       THEN {<<lower, upper, count, g[2]>>}
       ELSE UNION {LoopExits(state_i, state_j, t[1], t[2], count + 1) :
                     t \in quadratic_newton_step(
                             lower, upper,
                             phi(state_i, state_j, lower),
                             phi(state_i, state_j, upper),
                             dphi(state_i, state_j, lower),
                             dphi(state_i, state_j, upper))}

\* The tuples compute(state_i, state_j) on primitive states can return.
AloneResult(state_i, state_j) ==
  LET upper == UpperEnd(state_i, state_j)
      exits == LoopExits(state_i, state_j, LowerEnd(state_i, state_j),
                         upper, 0)
  IN IF newton_max_iter = 0
       THEN {<<compute_lambda(state_i, state_j, upper), upper,
               ToUnsigned(-1)>>}
       ELSE IF greedy_dij
         THEN {<<e[1], e[2], ToUnsigned(e[3])>> : e \in exits}
         ELSE {<<e[4], e[2], ToUnsigned(e[3])>> :
                 e \in {x \in exits :
                          check_bounds =>
                            GreaterEq(phi(state_i, state_j, x[2]),
                                      -newton_eps)}}

\* The tuples compute(U_i, U_j, n_ij, hd_i) can return for an edge with
\* these Riemann data, evaluated alone.
AloneReturned(state_i, state_j) ==
  IF ~greedy_dij THEN AloneResult(state_i, state_j)
  ELSE UNION {
    LET lambda == compute_lambda(state_i, state_j, r[2])
    IN IF ~GreedyRuns(Min(Rho(state_i), Rho(state_j)),
                      Max(Rho(state_i), Rho(state_j)))
         THEN {<<lambda, r[2], r[3]>>}
         ELSE {<<GreedyBound(Div(One, inverse), lambda), r[2], r[3]>> :
                 inverse \in
                   {x \in LimiterOutcomes(Div(One, lambda),
                                          Div(1000 * Scale, lambda)) :
                      check_bounds =>
                        GreedyCheckPasses(lambda, Div(One, x))}}
    : r \in AloneResult(state_i, state_j)}

\* The edges given to the threads: the Sod contrast, two colliding states,
\* and two equal states.
ConcurrentPairs ==
  {<<PrimitiveState(Scale, 0, Scale),
     PrimitiveState(Scale \div 8, 0, Scale \div 10)>>,
   <<PrimitiveState(Scale, (4 * Scale) \div 5, Scale),
     PrimitiveState(Scale, -((4 * Scale) \div 5), Scale)>>,
   <<PrimitiveState(Scale, 0, Scale), PrimitiveState(Scale, 0, Scale)>>}

\* The first edge of a thread.
FirstPairs ==
  {pair \in ConcurrentPairs : pair[1] # pair[2]}

InitConcurrent ==
  /\ \E pair \in FirstPairs :
       riemann_data_i = pair[1] /\ riemann_data_j = pair[2]
  /\ \E pair \in FirstPairs : suspended = FreshContext(pair)
  /\ exponent_is_integer = FALSE
  /\ newton_max_iter \in {0, MaxIter}
  /\ greedy_dij \in BOOLEAN
  /\ check_bounds \in BOOLEAN
  /\ greedy_threshold \in (IF greedy_dij THEN GreedyThresholds ELSE {Scale})
  /\ caller_pc = "called" /\ caller_lambda_max = 0 /\ lambda_greedy = 0
  /\ limiter_calls = 0
  /\ returned = <<>>
  /\ hd_i = 0 /\ greedy_relax_bounds = FALSE /\ bounds = <<>>
  /\ pc = "start"
  /\ p_min = 0 /\ p_max = 0 /\ p_star_tilde = 0 /\ phi_p_max = 0
  /\ p_1 = 0 /\ p_2 = 0 /\ gap = 0 /\ lambda_max = 0
  /\ i = 0 /\ steps = 0
  /\ result = <<>>
  /\ alone = [pair \in ConcurrentPairs |-> AloneReturned(pair[1], pair[2])]
  /\ ProjectorIdle /\ InitialValuesIdle /\ BatchIdle

\* The other thread takes the next step.
Switch ==
  /\ suspended # <<>>
  /\ Resume(suspended)
  /\ suspended' = Context
  /\ UNCHANGED <<config, alone, projector, initial_values, batch_vars>>

\* The thread has returned from compute and calls it for its next edge.
NextEdge ==
  /\ suspended # <<>>
  /\ caller_pc = "returned"
  /\ \E pair \in ConcurrentPairs : Resume(FreshContext(pair))
  /\ UNCHANGED <<config, elsewhere>>

NextConcurrent == Next \/ Switch \/ NextEdge

SpecConcurrent == InitConcurrent /\ [][NextConcurrent]_vars

(***************************************************************************)
(* compute(U_i, U_j, n_ij, hd_i) with a length scale and relaxed bounds     *)
(***************************************************************************)

\* The length scales hd_i handed to compute.
LengthScales == {0, Scale \div 10, Scale \div 4}

\* The edges evaluated with a length scale.
RelaxationPairs ==
  ConcurrentPairs \cup
    {<<PrimitiveState(Scale, 0, Scale \div 10),
       PrimitiveState(Scale \div 8, -((4 * Scale) \div 5), Scale \div 10)>>}

InitRelaxation ==
  /\ \E pair \in RelaxationPairs :
       riemann_data_i = pair[1] /\ riemann_data_j = pair[2]
  /\ hd_i \in LengthScales
  /\ greedy_relax_bounds \in BOOLEAN
  /\ exponent_is_integer = FALSE
  /\ newton_max_iter \in 0..MaxIter
  /\ greedy_dij \in BOOLEAN
  /\ check_bounds \in BOOLEAN
  /\ greedy_threshold \in (IF greedy_dij THEN GreedyThresholds ELSE {Scale})
  /\ caller_pc = "called" /\ caller_lambda_max = 0 /\ lambda_greedy = 0
  /\ limiter_calls = 0
  /\ returned = <<>>
  /\ bounds = <<>>
  /\ pc = "start"
  /\ p_min = 0 /\ p_max = 0 /\ p_star_tilde = 0 /\ phi_p_max = 0
  /\ p_1 = 0 /\ p_2 = 0 /\ gap = 0 /\ lambda_max = 0
  /\ i = 0 /\ steps = 0
  /\ result = <<>>
  /\ NoneSuspended /\ ProjectorIdle /\ InitialValuesIdle /\ BatchIdle

SpecRelaxation == InitRelaxation /\ [][Next]_vars

(***************************************************************************)
(* compute on a batch: Number = VectorizedArray, one edge per lane          *)
(***************************************************************************)

\* The lanes of the batch.
Lanes == 1..2

\* The edges bundled into a batch: those above and a large density contrast.
BatchPairs ==
  ConcurrentPairs \cup
    {<<PrimitiveState(Scale, 0, Scale),
       PrimitiveState(Scale \div 16, 0, Scale \div 10)>>}

\* The automatic variables of one lane at the entry of compute, and
\* width_one: <<p_1, p_2, lambda_max, i>> at the point where the loop of the
\* width-1 evaluation of the lane's edge is left, <<>> before.
FreshLane(pair) ==
  [riemann_data_i |-> pair[1], riemann_data_j |-> pair[2], p_1 |-> 0,
   p_2 |-> 0, gap |-> 0, lambda_max |-> 0, result |-> <<>>,
   width_one |-> <<>>]

\* The width-1 loop on the lane's edge is left with this bracket and count
\* if it has not been left before.
WidthOneExit(before, lower, upper, g, count) ==
  IF before = <<>>
     /\ (~LoopCondition(count, newton_max_iter) \/ ToleranceReached(g[1]))
    THEN <<lower, upper, g[2], count>>
    ELSE before

InitBatch ==
  /\ exponent_is_integer = FALSE
  /\ newton_max_iter \in 0..MaxIter
  /\ greedy_dij \in BOOLEAN
  /\ check_bounds \in BOOLEAN
  /\ greedy_threshold \in (IF greedy_dij THEN GreedyThresholds ELSE {Scale})
  /\ greedy_relax_bounds = FALSE /\ hd_i = 0 /\ bounds = <<>>
  /\ riemann_data_i = <<>> /\ riemann_data_j = <<>>
  /\ caller_pc = "idle" /\ caller_lambda_max = 0 /\ lambda_greedy = 0
  /\ limiter_calls = 0 /\ returned = <<>>
  /\ pc = "idle"
  /\ p_min = 0 /\ p_max = 0 /\ p_star_tilde = 0 /\ phi_p_max = 0
  /\ p_1 = 0 /\ p_2 = 0 /\ gap = 0 /\ lambda_max = 0
  /\ i = 0 /\ steps = 0
  /\ result = <<>>
  /\ suspended = <<>>
  /\ alone = <<>>
  /\ \E first \in BatchPairs, second \in BatchPairs :
       batch = <<FreshLane(first), FreshLane(second)>>
  /\ batch_i = 0 /\ batch_pc = "start" /\ batch_returned = <<>>
  /\ ProjectorIdle /\ InitialValuesIdle

\* The variables the batch leaves alone.
scalar ==
  <<arguments, config, callee, caller, suspended, alone, projector,
    initial_values>>

\* Mutant of BatchToleranceReached: one lane within the tolerance is enough.
AnyLaneToleranceReached(lanes) ==
  \E l \in Lanes : ToleranceReached(lanes[l].gap)

\* std::max(Number(0.), gap - newton_eps) == Number(0.) on a VectorizedArray:
\* the comparison is true when it is true in every lane.
BatchToleranceReached(lanes) ==
  \A l \in Lanes : ToleranceReached(lanes[l].gap)

\* std::max(Number(0.), rho_max * greedy_threshold_ - rho_min + eps)
\*   == Number(0.) on a VectorizedArray.
BatchCutsShort(lanes) ==
  \A l \in Lanes :
    ~GreedyRuns(Min(Rho(lanes[l].riemann_data_i), Rho(lanes[l].riemann_data_j)),
                Max(Rho(lanes[l].riemann_data_i), Rho(lanes[l].riemann_data_j)))

\* Step 1 without Newton iteration, lane by lane.
BatchReturnWithoutIteration ==
  /\ batch_pc = "start"
  /\ newton_max_iter = 0
  /\ batch' =
       [l \in Lanes |->
          LET upper == UpperEnd(batch[l].riemann_data_i,
                                batch[l].riemann_data_j)
              lambda == compute_lambda(batch[l].riemann_data_i,
                                       batch[l].riemann_data_j, upper)
          IN [batch[l] EXCEPT !.p_2 = upper, !.lambda_max = lambda,
                              !.result = <<lambda, upper, ToUnsigned(-1)>>,
                              !.width_one = <<0, upper, lambda, -1>>]]
  /\ batch_pc' = "done"
  /\ UNCHANGED <<scalar, batch_i, batch_returned>>

\* Step 1, the clamp and the first gap, lane by lane through masks.
BatchSelect ==
  /\ batch_pc = "start"
  /\ newton_max_iter # 0
  /\ batch' =
       [l \in Lanes |->
          LET lower == LowerEnd(batch[l].riemann_data_i,
                                batch[l].riemann_data_j)
              upper == UpperEnd(batch[l].riemann_data_i,
                                batch[l].riemann_data_j)
              g == compute_gap(batch[l].riemann_data_i,
                               batch[l].riemann_data_j, lower, upper)
          IN [batch[l] EXCEPT !.p_1 = lower, !.p_2 = upper, !.gap = g[1],
                              !.lambda_max = g[2],
                              !.width_one =
                                 WidthOneExit(<<>>, lower, upper, g, 0)]]
  /\ batch_i' = 0
  /\ batch_pc' = "newton"
  /\ UNCHANGED <<scalar, batch_returned>>

\* The brackets one quadratic Newton step may produce in a lane.
LaneBrackets(lane) ==
  quadratic_newton_step(
    lane.p_1, lane.p_2,
    phi(lane.riemann_data_i, lane.riemann_data_j, lane.p_1),
    phi(lane.riemann_data_i, lane.riemann_data_j, lane.p_2),
    dphi(lane.riemann_data_i, lane.riemann_data_j, lane.p_1),
    dphi(lane.riemann_data_i, lane.riemann_data_j, lane.p_2))

\* One pass through the loop body: every lane takes the step.
BatchNewtonStep ==
  /\ batch_pc = "newton"
  /\ LoopCondition(batch_i, newton_max_iter)
  /\ ~BatchToleranceReached(batch)
  /\ \E first \in LaneBrackets(batch[1]), second \in LaneBrackets(batch[2]) :
       batch' =
         [l \in Lanes |->
            LET t == <<first, second>>[l]
                g == compute_gap(batch[l].riemann_data_i,
                                 batch[l].riemann_data_j, t[1], t[2])
            IN [batch[l] EXCEPT !.p_1 = t[1], !.p_2 = t[2], !.gap = g[1],
                                !.lambda_max = g[2],
                                !.width_one =
                                   WidthOneExit(batch[l].width_one, t[1],
                                                t[2], g, batch_i + 1)]]
  /\ batch_i' = batch_i + 1
  /\ UNCHANGED <<scalar, batch_pc, batch_returned>>

\* The loop is left for the whole batch and compute returns.
BatchReturn ==
  /\ batch_pc = "newton"
  /\ ~LoopCondition(batch_i, newton_max_iter) \/ BatchToleranceReached(batch)
  /\ IF ~greedy_dij /\ check_bounds
        /\ \E l \in Lanes :
             ~GreaterEq(phi(batch[l].riemann_data_i, batch[l].riemann_data_j,
                            batch[l].p_2), -newton_eps)
       THEN batch_pc' = "invalid_state" /\ UNCHANGED batch
       ELSE /\ batch' =
                 [l \in Lanes |->
                    [batch[l] EXCEPT !.result =
                       <<IF greedy_dij THEN batch[l].p_1
                                       ELSE batch[l].lambda_max,
                         batch[l].p_2, ToUnsigned(batch_i)>>]]
            /\ batch_pc' = "done"
  /\ UNCHANGED <<scalar, batch_i, batch_returned>>

\* if constexpr (!greedy_dij_) return compute(riemann_data_i, riemann_data_j);
BatchReturnPrimitive ==
  /\ batch_pc = "done"
  /\ ~greedy_dij
  /\ batch_returned' = [l \in Lanes |-> batch[l].result]
  /\ batch_pc' = "returned"
  /\ UNCHANGED <<scalar, batch, batch_i>>

\* Greedy, and the density test cuts short in every lane.
BatchShortCircuit ==
  /\ batch_pc = "done"
  /\ greedy_dij
  /\ BatchCutsShort(batch)
  /\ batch_returned' =
       [l \in Lanes |->
          <<compute_lambda(batch[l].riemann_data_i, batch[l].riemann_data_j,
                           batch[l].result[2]),
            batch[l].result[2], batch[l].result[3]>>]
  /\ batch_pc' = "cut_short"
  /\ UNCHANGED <<scalar, batch, batch_i>>

\* The lambda_greedy_inverse values the limiter may return for a lane.
LaneLimiterOutcomes(lane) ==
  LET lambda == compute_lambda(lane.riemann_data_i, lane.riemann_data_j,
                               lane.result[2])
  IN LimiterOutcomes(Div(One, lambda), Div(1000 * Scale, lambda))

\* Greedy: the limiter runs for every lane of the batch.
BatchRefine ==
  /\ batch_pc = "done"
  /\ greedy_dij
  /\ ~BatchCutsShort(batch)
  /\ \E first \in LaneLimiterOutcomes(batch[1]),
        second \in LaneLimiterOutcomes(batch[2]) :
       LET lambda(l) ==
             compute_lambda(batch[l].riemann_data_i, batch[l].riemann_data_j,
                            batch[l].result[2])
           greedy(l) == Div(One, <<first, second>>[l])
       IN IF check_bounds
             /\ \E l \in Lanes : ~GreedyCheckPasses(lambda(l), greedy(l))
            THEN batch_pc' = "garbled_lambda_greedy"
                 /\ UNCHANGED batch_returned
            ELSE /\ batch_returned' =
                      [l \in Lanes |->
                         <<GreedyBound(greedy(l), lambda(l)),
                           batch[l].result[2], batch[l].result[3]>>]
                 /\ batch_pc' = "limited"
  /\ UNCHANGED <<scalar, batch, batch_i>>

NextBatch ==
  \/ BatchReturnWithoutIteration
  \/ BatchSelect
  \/ BatchNewtonStep
  \/ BatchReturn
  \/ BatchReturnPrimitive
  \/ BatchShortCircuit
  \/ BatchRefine

SpecBatch == InitBatch /\ [][NextBatch]_vars

(***************************************************************************)
(* Properties                                                               *)
(***************************************************************************)

\* The candidates of Step 1, recomputed from the arguments.
InputPMin == Min(P(riemann_data_i), P(riemann_data_j))
InputPMax == Max(P(riemann_data_i), P(riemann_data_j))
PhiAtPMax == phi(riemann_data_i, riemann_data_j, InputPMax)
TwoRarefaction == p_star_two_rarefaction(riemann_data_i, riemann_data_j)
IsVacuumPair == IsNaN(TwoRarefaction)

C2_SelectionBySign ==
  /\ pc \in {"upper_selected", "lower_selected"} =>
       /\ Less(PhiAtPMax, 0) => p_2 = TwoRarefaction
       /\ GreaterEq(PhiAtPMax, 0) => p_2 = Min(InputPMax, TwoRarefaction)
  /\ pc = "lower_selected" =>
       /\ Less(PhiAtPMax, 0) => p_1 = InputPMax
       /\ GreaterEq(PhiAtPMax, 0) => p_1 = InputPMin

\* C2 witness: phi(p_max) < 0 with two different pressures, so that p_1 is
\* p_max and not p_min.
C2_Witness ==
  /\ pc = "lower_selected"
  /\ Less(PhiAtPMax, 0)
  /\ Less(InputPMin, InputPMax)
  /\ p_1 = InputPMax /\ p_2 = TwoRarefaction

\* C3 (as claimed, with the round-off slack newton_eps): the bracket handed
\* to the Newton loop, after the clamp, satisfies phi(p_1) <= 0 <= phi(p_2).
C3_Claimed_BracketContainsRoot ==
  (pc = "newton" /\ steps = 0) =>
    /\ LessEq(phi(riemann_data_i, riemann_data_j, p_1), newton_eps)
    /\ GreaterEq(phi(riemann_data_i, riemann_data_j, p_2), -newton_eps)

\* The brackets the next Newton step may produce.
\* C3 failing state: the loop is entered with phi > 0 at the lower end of the
\* bracket, which is [p_min, p_max] although phi(p_min) > 0.
C3_Witness ==
  /\ pc = "newton" /\ steps = 0
  /\ p_1 = InputPMin /\ p_2 = InputPMax
  /\ Less(newton_eps, phi(riemann_data_i, riemann_data_j, p_1))

NextBrackets ==
  quadratic_newton_step(p_1, p_2,
                        phi(riemann_data_i, riemann_data_j, p_1),
                        phi(riemann_data_i, riemann_data_j, p_2),
                        dphi(riemann_data_i, riemann_data_j, p_1),
                        dphi(riemann_data_i, riemann_data_j, p_2))

\* C4: the loop is bounded by newton_max_iter and compute terminates: the
\* counter and the number of Newton steps never exceed newton_max_iter, a
\* call that has not returned is never stuck (in the loop it either leaves
\* or takes a step that advances the counter), and the returned count is the
\* counter, in 0..newton_max_iter.
C4_BoundedIteration ==
  /\ i \in 0..newton_max_iter
  /\ steps \in 0..newton_max_iter
  /\ pc \in {"start", "upper_selected", "lower_selected", "newton", "done",
             "invalid_state"}
  /\ (pc = "newton" /\ i < newton_max_iter /\ ~ToleranceReached(gap)) =>
       NextBrackets # {}
  /\ (pc = "newton" /\ ~ToleranceReached(gap)) => i <= newton_max_iter
  /\ (pc = "done" /\ newton_max_iter > 0) =>
       /\ result[3] = ToUnsigned(i)
       /\ result[3][1] = 0 /\ result[3][2] \in 0..newton_max_iter

\* C4 witness: compute returns with the iteration budget used up.
C4_Witness ==
  pc = "done" /\ newton_max_iter = MaxIter /\ steps = MaxIter

\* C5: the loop stops at the first of "gap <= newton_eps" and
\* "newton_max_iter steps done": a Newton step is taken only in the loop,
\* while the gap exceeds newton_eps and the counter is below newton_max_iter,
\* and advances the counter by one; once the gap is within newton_eps (and
\* after the return) the bracket, the gap and lambda_max no longer change;
\* and the returned count is the number of steps taken, which is below
\* newton_max_iter only if the gap is within newton_eps.
C5_StopsAtFirst ==
  /\ [][steps' # steps =>
          /\ pc = "newton" /\ pc' = "newton"
          /\ Less(newton_eps, gap)
          /\ i < newton_max_iter
          /\ steps' = steps + 1 /\ i' = i + 1]_vars
  /\ [][((pc = "newton" /\ LessEq(gap, newton_eps))
          \/ pc \in {"done", "invalid_state"}) =>
          /\ pc' # "newton"
          /\ <<p_1, p_2, gap, lambda_max, i, steps>>' =
               <<p_1, p_2, gap, lambda_max, i, steps>>]_vars
  /\ []((pc = "done" /\ newton_max_iter > 0) =>
          /\ result[3] = ToUnsigned(steps)
          /\ steps = newton_max_iter \/ LessEq(gap, newton_eps))

\* C5 witness: compute returns after one Newton step, with the tolerance
\* reached before the budget of two steps is used up.
C5_Witness ==
  /\ pc = "done" /\ newton_max_iter > 1
  /\ steps = 1 /\ result[3] = ToUnsigned(1)
  /\ LessEq(gap, newton_eps)

GapOf(lo, hi) ==
  Max(Abs(Sub(lambda3_plus(riemann_data_j, hi),
              lambda3_plus(riemann_data_j, lo))),
      Abs(Sub(lambda1_minus(riemann_data_i, lo),
              lambda1_minus(riemann_data_i, hi))))

\* C7: the gap the loop tests is the wave-speed gap of the current bracket,
\* and a Newton step never increases it.
C7_GapNonIncreasing ==
  /\ [](pc = "newton" => gap = GapOf(p_1, p_2))
  /\ [][(pc = "newton" /\ steps' = steps + 1) =>
          /\ LessEq(gap', gap)
          /\ LessEq(GapOf(p_1', p_2'), GapOf(p_1, p_2))]_vars

\* C7 witness: after a Newton step the gap is strictly smaller than the gap
\* of the bracket the loop was entered with.
C7_Witness ==
  /\ pc = "newton" /\ steps > 0
  /\ Less(gap, GapOf(ClampedLower(SelectLess(phi_p_max, 0, p_max, p_min),
                                  SelectLess(phi_p_max, 0, p_star_tilde,
                                             Min(p_max, p_star_tilde))),
                     SelectLess(phi_p_max, 0, p_star_tilde,
                                Min(p_max, p_star_tilde))))

\* C8 (as claimed): with newton_max_iter = 0 the returned p_star_approx is
\* the two-rarefaction estimate, and lambda_max is compute_lambda there.
C8_Claimed_ZeroIterationIsTwoRarefaction ==
  (pc = "done" /\ newton_max_iter = 0) =>
    /\ result[2] = TwoRarefaction
    /\ result[1] = compute_lambda(riemann_data_i, riemann_data_j,
                                  TwoRarefaction)

\* C8 (amended): with newton_max_iter = 0 the returned p_star_approx is the
\* upper end of the initial bracket: the two-rarefaction estimate if
\* phi(p_max) < 0, and min(p_max, two-rarefaction estimate) otherwise; and
\* lambda_max is compute_lambda at that value.
C8_ZeroIterationIsUpperEnd ==
  (pc = "done" /\ newton_max_iter = 0) =>
    /\ Less(PhiAtPMax, 0) => result[2] = TwoRarefaction
    /\ ~Less(PhiAtPMax, 0) => result[2] = Min(InputPMax, TwoRarefaction)
    /\ result[1] = Max(positive_part(lambda3_plus(riemann_data_j, result[2])),
                       negative_part(lambda1_minus(riemann_data_i, result[2])))

\* C8 witness: a zero-iteration call returns p_max although the
\* two-rarefaction estimate is larger.
C8_Witness ==
  /\ pc = "done" /\ newton_max_iter = 0
  /\ result[2] = InputPMax
  /\ Less(InputPMax, TwoRarefaction)
  /\ GreaterEq(PhiAtPMax, 0)

\* The unsigned int u = <<high, low>> has the integer value n, i.e.
\* n = high * Half16 + low.
HoldsValue(u, n) == u[1] = n \div Half16 /\ u[2] = n % Half16

\* C9 (as claimed): with newton_max_iter = 0 the returned count has the
\* value -1, and with newton_max_iter > 0 a value in 0..newton_max_iter.
C9_Claimed_SentinelMinusOne ==
  pc = "done" =>
    IF newton_max_iter = 0
      THEN HoldsValue(result[3], -1)
      ELSE \E n \in 0..newton_max_iter : HoldsValue(result[3], n)

\* C9 failing state: with newton_max_iter = 0 the returned count is
\* 65535 * 65536 + 65535 = 2^32 - 1.
C9_Witness ==
  /\ pc = "done" /\ newton_max_iter = 0
  /\ result[3] = <<Half16 - 1, Half16 - 1>>
  /\ ~HoldsValue(result[3], -1)

\* C10: for two identical states and newton_max_iter > 0: phi(p_max) = 0,
\* the loop is entered with p_1 = p_2 = p_i and gap 0, no Newton step is
\* taken, and compute returns p_2 = p_i, the count 0 and
\* lambda_max = |u_i| + a_i.
C10_IdentityCase ==
  (riemann_data_i = riemann_data_j /\ newton_max_iter > 0) =>
    /\ steps = 0
    /\ pc \in {"start", "upper_selected", "lower_selected", "newton", "done"}
    /\ pc \in {"upper_selected", "lower_selected"} => phi_p_max = 0
    /\ pc \in {"newton", "done"} =>
         /\ p_1 = P(riemann_data_i) /\ p_2 = P(riemann_data_i)
         /\ gap = 0
         /\ lambda_max = Add(Abs(U(riemann_data_i)), A(riemann_data_i))
    /\ pc = "done" =>
         /\ result[2] = P(riemann_data_i) /\ result[2] = P(riemann_data_j)
         /\ result[3] = ToUnsigned(0)
         /\ ~greedy_dij =>
              result[1] = Add(Abs(U(riemann_data_i)), A(riemann_data_i))

\* C10 witness: compute has returned for two identical states moving to the
\* left faster than sound.
C10_Witness ==
  /\ pc = "done" /\ newton_max_iter > 0 /\ ~greedy_dij
  /\ riemann_data_i = riemann_data_j
  /\ U(riemann_data_i) < 0
  /\ result[1] = A(riemann_data_i) - U(riemann_data_i)

\* The densities of the two states and their contrast as the claims write it.
InputRhoMin == Min(Rho(riemann_data_i), Rho(riemann_data_j))
InputRhoMax == Max(Rho(riemann_data_i), Rho(riemann_data_j))
DensityContrast == Div(Sub(InputRhoMax, InputRhoMin), InputRhoMax)

\* C12: whenever the greedy refinement has run and compute(U_i, U_j, n_ij,
\* hd_i) returns, its first component is min(lambda_greedy, lambda_max) and
\* is at most the lambda_max the Newton refinement ended with (the value
\* returned with greedy mode disabled), whatever the limiter returned.
C12_GreedyMonotone ==
  (caller_pc = "returned" /\ greedy_dij /\ limiter_calls > 0) =>
    LET bound == Max(positive_part(lambda3_plus(riemann_data_j, p_2)),
                     negative_part(lambda1_minus(riemann_data_i, p_2)))
    IN /\ returned[1] = (IF Less(bound, lambda_greedy)
                           THEN bound ELSE lambda_greedy)
       /\ lambda_max = bound
       /\ LessEq(returned[1], lambda_max)

\* C12 witness: the limiter returned a lambda_greedy above lambda_max and
\* compute returned lambda_max.
C12_Witness ==
  /\ caller_pc = "returned" /\ greedy_dij /\ limiter_calls = 1
  /\ Less(lambda_max, lambda_greedy)
  /\ returned[1] = lambda_max

\* C13 (as claimed): with greedy mode enabled the limiter is called exactly
\* when the density contrast (rho_max - rho_min) / rho_max exceeds
\* greedy_threshold; otherwise lambda_max is returned without a call.
C13_Claimed_GreedyByContrast ==
  (caller_pc \in {"returned", "garbled_lambda_greedy"} /\ greedy_dij) =>
    /\ limiter_calls = 1 <=> Less(greedy_threshold, DensityContrast)
    /\ limiter_calls = 0 =>
         returned = <<compute_lambda(riemann_data_i, riemann_data_j, p_2),
                      p_2, result[3]>>

\* C13 failing state: the limiter has been called for two states of equal
\* density, whose contrast is 0.
C13_Witness ==
  /\ caller_pc = "returned" /\ greedy_dij /\ limiter_calls = 1
  /\ Rho(riemann_data_i) = Rho(riemann_data_j)
  /\ DensityContrast = 0
  /\ Less(DensityContrast, greedy_threshold)

\* C14 (as claimed): the returned lambda_max is at least
\* max(|u_i| + a_i, |u_j| + a_j) minus a slack of newton_eps.
C14_Claimed_Soundness ==
  (pc = "done" /\ ~greedy_dij) =>
    GreaterEq(result[1],
              Sub(Max(Add(Abs(U(riemann_data_i)), A(riemann_data_i)),
                      Add(Abs(U(riemann_data_j)), A(riemann_data_j))),
                  newton_eps))

\* C14 (amended): the returned lambda_max is non-negative and at least
\* max(a_i - u_i, u_j + a_j), the speeds of the left-going wave of state i
\* and of the right-going wave of state j.
C14_OutwardSoundness ==
  (pc = "done" /\ ~greedy_dij) =>
    /\ GreaterEq(result[1], 0)
    /\ GreaterEq(result[1], Sub(A(riemann_data_i), U(riemann_data_i)))
    /\ GreaterEq(result[1], Add(U(riemann_data_j), A(riemann_data_j)))

\* C14 witness: compute has returned a lambda_max below |u_i| + a_i for a
\* state i moving towards state j.
C14_Witness ==
  /\ pc = "done" /\ ~greedy_dij /\ newton_max_iter > 0
  /\ Less(0, U(riemann_data_i))
  /\ Less(result[1], Add(U(riemann_data_i), A(riemann_data_i)))
  /\ GreaterEq(result[1], Add(U(riemann_data_j), A(riemann_data_j)))

\* C15: on every return path the reported wave-speed bound is non-negative:
\* it is max(positive_part(lambda3_plus(j, p_2)),
\* negative_part(lambda1_minus(i, p_2))), or the minimum of that value and a
\* non-negative lambda_greedy if the limiter has been called.
C15_BoundNonNegative ==
  LET bound == Max(positive_part(lambda3_plus(riemann_data_j, p_2)),
                   negative_part(lambda1_minus(riemann_data_i, p_2)))
  IN /\ (pc = "done" /\ ~greedy_dij) =>
          result[1] = bound /\ GreaterEq(result[1], 0)
     /\ caller_pc = "returned" =>
          /\ GreaterEq(returned[1], 0)
          /\ returned[2] = p_2
          /\ limiter_calls = 0 => returned[1] = bound
          /\ limiter_calls > 0 =>
               /\ GreaterEq(lambda_greedy, 0)
               /\ returned[1] \in {bound, lambda_greedy}
               /\ LessEq(returned[1], bound)
               /\ LessEq(returned[1], lambda_greedy)

\* C15 witness: the greedy short-circuit has returned a positive bound after
\* Newton steps.
C15_Witness ==
  /\ caller_pc = "returned" /\ greedy_dij /\ limiter_calls = 0
  /\ steps > 0
  /\ Less(0, returned[1])

\* C17 (as claimed): the two-rarefaction estimate satisfies
\* phi(p_star_tilde) >= 0 up to newton_eps.
C17_Claimed_EstimateIsUpperBound ==
  pc = "upper_selected" =>
    GreaterEq(phi(riemann_data_i, riemann_data_j, p_star_tilde), -newton_eps)

\* C17 failing state: the estimate is NaN or negative for two states with
\* rho, p > 0, and phi is NaN there.
C17_Witness ==
  /\ pc = "upper_selected"
  /\ Less(0, Rho(riemann_data_i)) /\ Less(0, P(riemann_data_i))
  /\ Less(0, Rho(riemann_data_j)) /\ Less(0, P(riemann_data_j))
  /\ IsNaN(p_star_tilde) \/ Less(p_star_tilde, 0)
  /\ IsNaN(phi(riemann_data_i, riemann_data_j, p_star_tilde))

Mirror(state) == <<Rho(state), Neg(U(state)), P(state), A(state)>>

\* The arguments of the evaluation with the two states exchanged and the
\* direction negated.
MirrorI == Mirror(riemann_data_j)
MirrorJ == Mirror(riemann_data_i)

\* x and y are both NaN or differ by at most newton_eps.
Close(x, y) ==
  (IsNaN(x) /\ IsNaN(y)) \/ LessEq(Abs(Sub(x, y)), newton_eps)

\* phi(p_max) has the same sign in both evaluations.
SameClassification ==
  Less(phi_of_p_max(riemann_data_i, riemann_data_j), 0)
    <=> Less(phi_of_p_max(MirrorI, MirrorJ), 0)

Reversed(n) == <<Neg(n[1]), Neg(n[2])>>

\* E - |m - (m . n) n|^2 / (2 rho).
ReducedEnergy(state, n) ==
  LET m == momentum(state)
      transverse == Minus(m, Times(Dot(m, n), n))
  IN Sub(state[4], Div(norm_square(transverse), Mul(Two, state[1])))

\* C19: the projector returns rho = U[0], u = (m . n) / rho and the pressure
\* and speed of sound of the 1-D state with energy
\* E - |m - (m . n) n|^2 / (2 rho) (up to round-off); when the momentum is
\* parallel to n the energy is E itself, and for -n it returns -u and the
\* same rho, p and a.
C19_Projector ==
  projected_data # <<>> =>
    LET rho == conserved_U[1]
        m_n == Dot(momentum(conserved_U), n_ij)
        reduced == <<rho, m_n, ReducedEnergy(conserved_U, n_ij)>>
    IN /\ Rho(projected_data) = rho
       /\ Close(U(projected_data), Div(m_n, rho))
       /\ Close(P(projected_data), pressure(reduced))
       /\ A(projected_data) = speed_of_sound(rho, P(projected_data))
       /\ perp(conserved_U, n_ij) = <<0, 0>> =>
            P(projected_data) = pressure(<<rho, m_n, conserved_U[4]>>)
       /\ riemann_data_from_state(conserved_U, Reversed(n_ij))
            = Mirror(projected_data)

\* C19 witness: a state with momentum along and across the direction has been
\* projected, and its energy was reduced.
C19_Witness ==
  /\ projected_data # <<>>
  /\ U(projected_data) # 0
  /\ perp(conserved_U, n_ij) # <<0, 0>>
  /\ projected_state(conserved_U, n_ij)[3] # conserved_U[4]

\* The direction has unit norm, up to round-off.
IsUnit(direction) == Close(norm(direction), One)

\* The kinetic energy of a state is that of its momentum.
EnergyConsistent(state, p) ==
  Close(Sub(state[Len(state)], Div(p, gamma - One)),
        Div(norm_square(momentum(state)), Mul(Two, state[1])))

\* C20: parse_parameters_callback aborts on a direction of zero norm with no
\* initial-state function installed; otherwise the direction has unit norm
\* from then on, and the installed function builds its states with this
\* unit direction.
C20_DirectionNormalized ==
  /\ callback_pc = "zero_direction" =>
       norm(initial_direction_) = 0 /\ initial_state_ = <<>>
  /\ callback_pc \in {"normalized", "unknown_initial_state", "installed",
                      "done"} => IsUnit(initial_direction_)
  /\ initial_state_ # <<>> =>
       /\ IsUnit(initial_direction_)
       /\ initial_state_[1] =
            initial_state_of(configuration_, initial_direction_,
                             initial_1d_state_)[1]
       /\ configuration_ \in {"uniform", "shock front", "contrast"} =>
            EnergyConsistent(initial_state_[1], initial_1d_state_[3])

\* C20 witness: the callback was called with the zero vector as direction of
\* a known configuration and aborted, and no initial-state function is
\* installed.
C20_Witness ==
  /\ callback_pc = "zero_direction"
  /\ initial_direction_ = <<0, 0>>
  /\ configuration_ = "shock front"
  /\ initial_state_ = <<>>

C22_SpecializedIsGeneral ==
  pc = "upper_selected" =>
    /\ phi_of_p_max(riemann_data_i, riemann_data_j) = PhiAtPMax
    /\ phi_p_max = PhiAtPMax

\* C22 witness: phi(p_max) has been computed for two states of different
\* pressure, and the shock branch contributes to it.
C22_Witness ==
  /\ pc = "upper_selected"
  /\ P(riemann_data_i) # P(riemann_data_j)
  /\ phi_p_max # Sub(U(riemann_data_j), U(riemann_data_i))
  /\ phi_p_max = PhiAtPMax

\* The triple compute(riemann_data_i, riemann_data_j) returns with greedy mode
\* disabled, for the bracket the refinement ended with.
NonGreedyTriple ==
  <<lambda_max, p_2,
    IF newton_max_iter = 0 THEN ToUnsigned(-1) ELSE ToUnsigned(i)>>

\* C23 (as claimed): compute_lambda at p_2 is the lambda_max of compute_gap
\* for the bracket's p_1, and with greedy mode enabled and a density contrast
\* below greedy_threshold compute(U_i, U_j, n_ij, hd_i) returns the triple of
\* the greedy-disabled evaluation.
C23_Claimed_BelowThresholdIsNonGreedy ==
  /\ pc = "newton" =>
       compute_lambda(riemann_data_i, riemann_data_j, p_2) =
         compute_gap(riemann_data_i, riemann_data_j, p_1, p_2)[2]
  /\ (/\ greedy_dij
      /\ caller_pc \in {"returned", "garbled_lambda_greedy"}
      /\ Less(DensityContrast, greedy_threshold)) =>
       returned = NonGreedyTriple

\* C23 failing state: the contrast is below the threshold, yet the limiter
\* has run and a bound below lambda_max is returned.
C23_Witness ==
  /\ greedy_dij /\ caller_pc = "returned" /\ limiter_calls = 1
  /\ Less(DensityContrast, greedy_threshold)
  /\ Less(returned[1], lambda_max)
  /\ returned[2] = p_2

\* The lower end of the bracket of Step 1: p_1 after the clamp, which the path
\* without Newton iteration leaves before computing it.
BracketLower ==
  IF newton_max_iter = 0
    THEN ClampedLower(SelectLess(phi_p_max, 0, p_max, p_min), p_2)
    ELSE p_1

\* C26 (as claimed): in greedy mode compute(riemann_data_i, riemann_data_j)
\* returns the bracket (p_1, p_2, i), and compute(U_i, U_j, n_ij, hd_i)
\* returns that p_2 and that count as second and third component on both
\* greedy return paths.
C26_Claimed_GreedyReturnsBracket ==
  /\ (greedy_dij /\ pc = "done") =>
       result[1] = BracketLower /\ result[2] = p_2
  /\ (greedy_dij /\ caller_pc = "returned") =>
       returned[2] = result[2] /\ returned[3] = result[3]

\* C26 failing state: greedy mode without Newton iteration; the first
\* component handed to the caller is the wave speed, not the lower end.
C26_Witness ==
  /\ greedy_dij /\ newton_max_iter = 0 /\ pc = "done"
  /\ result[1] = compute_lambda(riemann_data_i, riemann_data_j, p_2)
  /\ result[1] # BracketLower
  /\ caller_pc = "returned" /\ limiter_calls = 1

\* The densities of the state of smaller and of the state of larger pressure.
RhoAtPMin ==
  SelectLess(P(riemann_data_i), P(riemann_data_j), Rho(riemann_data_i),
             Rho(riemann_data_j))
RhoAtPMax ==
  SelectLess(P(riemann_data_i), P(riemann_data_j), Rho(riemann_data_j),
             Rho(riemann_data_i))

\* The density behind a shock to pressure p_1 and behind an expansion to
\* pressure p_2, from a state of density rho and pressure p.
ShockDensity(rho, p, p_1_) ==
  Div(Mul(rho, Add(Mul(gamma_minus_one_over_gamma_plus_one, p), p_1_)),
      Add(Mul(gamma_minus_one_over_gamma_plus_one, p_1_), p))
ExpansionDensity(rho, p, p_2_) ==
  Mul(rho, Pow(Div(p_2_, p), GammaDen, GammaNum))

\* The estimates of the call compute_bounds makes for the bracket handed to
\* it.
Estimates ==
  shock_and_expansion_density(InputPMin, InputPMax, RhoAtPMin, RhoAtPMax,
                              result[1], result[2])

\* C24 (as claimed): each estimate is scaled from the density that belongs to
\* its pressure: those of the min-pressure state from rho_p_min with p_min,
\* those of the max-pressure state from rho_p_max with p_max; the shock
\* estimates at p_1, the expansion estimates at p_2.
C24_Claimed_DensityPairedWithPressure ==
  limiter_calls = 1 =>
    Estimates = <<ShockDensity(RhoAtPMin, InputPMin, result[1]),
                  ShockDensity(RhoAtPMax, InputPMax, result[1]),
                  ExpansionDensity(RhoAtPMin, InputPMin, result[2]),
                  ExpansionDensity(RhoAtPMax, InputPMax, result[2])>>

\* C24 failing state: the shock estimate of the max-pressure state is scaled
\* from the other state's density, and the upper density bound handed to the
\* limiter is below the one the paired estimate gives.
C24_Witness ==
  /\ limiter_calls = 1 /\ caller_pc = "returned" /\ newton_max_iter # 0
  /\ RhoAtPMin # RhoAtPMax
  /\ Estimates[2] = ShockDensity(RhoAtPMin, InputPMax, result[1])
  /\ Estimates[2] # ShockDensity(RhoAtPMax, InputPMax, result[1])
  /\ Less(bounds[2],
          Max(InputRhoMax,
              Max(Estimates[1],
                  ShockDensity(RhoAtPMax, InputPMax, result[1]))))

\* C28: the density bounds compute_bounds returns enclose both input
\* densities, rho_min <= min(rho_i, rho_j) <= max(rho_i, rho_j) <= rho_max,
\* and its s_min is the smaller of the two specific entropies.
C28_BoundsEncloseInputs ==
  (limiter_calls = 1 /\ ~greedy_relax_bounds) =>
    LET s_i == specific_entropy(Rho(riemann_data_i), P(riemann_data_i))
        s_j == specific_entropy(Rho(riemann_data_j), P(riemann_data_j))
    IN /\ LessEq(bounds[1], InputRhoMin)
       /\ LessEq(InputRhoMin, InputRhoMax)
       /\ LessEq(InputRhoMax, bounds[2])
       /\ bounds[3] \in {s_i, s_j}
       /\ LessEq(bounds[3], s_i)
       /\ LessEq(bounds[3], s_j)

\* C28 witness: bounds have been computed after a Newton step for two states
\* of different density and entropy; the expansion estimate lowers rho_min
\* below both densities.
C28_Witness ==
  /\ limiter_calls = 1 /\ ~greedy_relax_bounds /\ steps > 0
  /\ Less(bounds[1], InputRhoMin)
  /\ Less(InputRhoMin, InputRhoMax)
  /\ LessEq(InputRhoMax, bounds[2])
  /\ Less(bounds[3],
          Max(specific_entropy(Rho(riemann_data_i), P(riemann_data_i)),
              specific_entropy(Rho(riemann_data_j), P(riemann_data_j))))

\* C25: hd_i reaches the result only through the bounds handed to the
\* limiter, and only with greedy_relax_bounds: then s_min, a and b are the
\* values of compute_bounds times 1 - hd_i, and rho_min and rho_max are
\* those of compute_bounds; without relaxation the bounds are those of
\* compute_bounds, and without a limiter call the result is the
\* greedy-disabled triple, for every hd_i.
C25_LengthScaleOnlyRelaxesEntropy ==
  /\ limiter_calls = 1 =>
       LET unrelaxed ==
             compute_bounds(riemann_data_i, riemann_data_j, result[1],
                            result[2])
           factor == Sub(One, hd_i)
       IN /\ bounds[1] = unrelaxed[1] /\ bounds[2] = unrelaxed[2]
          /\ IF greedy_relax_bounds
               THEN /\ bounds[3] = Mul(unrelaxed[3], factor)
                    /\ bounds[4] = Mul(unrelaxed[4], factor)
                    /\ bounds[5] = Mul(unrelaxed[5], factor)
               ELSE bounds = unrelaxed
          /\ caller_pc = "returned" =>
               /\ returned[1] \in
                    {GreedyBound(Div(One, inverse), caller_lambda_max) :
                       inverse \in
                         LimiterOutcomes(Div(One, caller_lambda_max),
                                         Div(1000 * Scale, caller_lambda_max))}
               /\ returned[2] = p_2 /\ returned[3] = result[3]
  /\ (caller_pc = "returned" /\ limiter_calls = 0) =>
       bounds = <<>> /\ returned = NonGreedyTriple

\* C25 witness: the limiter has been called with relaxed bounds for a
\* non-zero length scale: the entropy bounds are scaled, the density bounds
\* are not.
C25_Witness ==
  /\ limiter_calls = 1 /\ caller_pc = "returned"
  /\ greedy_relax_bounds /\ hd_i = Scale \div 4
  /\ bounds[1] =
       compute_bounds(riemann_data_i, riemann_data_j, result[1],
                      result[2])[1]
  /\ bounds[1] > 0
  /\ Less(bounds[3],
          compute_bounds(riemann_data_i, riemann_data_j, result[1],
                         result[2])[3])

\* The configurations installed in every dimension.
DimensionFree == {"uniform", "shock front", "contrast", "sod contrast"}

\* The positions in which parse_parameters_callback has decided on the
\* configuration of a direction of non-zero norm.
Decided ==
  {"installed", "done", "unknown_initial_state", "not_implemented"}

BatchReturned == batch_pc \in {"returned", "cut_short", "limited"}

\* The density test of a lane's own edge lets the minimizer run.
LaneGreedyRuns(lane) ==
  GreedyRuns(Min(Rho(lane.riemann_data_i), Rho(lane.riemann_data_j)),
             Max(Rho(lane.riemann_data_i), Rho(lane.riemann_data_j)))

\* The triple of the width-1 evaluation of a lane's edge: the one of the
\* primitive-state compute, and the one returned without a limiter call.
WidthOneResult(lane) ==
  <<IF greedy_dij /\ newton_max_iter # 0 THEN lane.width_one[1]
                                        ELSE lane.width_one[3],
    lane.width_one[2], ToUnsigned(lane.width_one[4])>>
WidthOneUnlimited(lane) ==
  <<compute_lambda(lane.riemann_data_i, lane.riemann_data_j,
                   lane.width_one[2]),
    lane.width_one[2], ToUnsigned(lane.width_one[4])>>

\* C27 (as claimed): the triple of a lane is that of the width-1 evaluation
\* of its edge: the same p_2 and count, the same triple when no limiter is
\* involved, and the limiter is called for the lane exactly when the density
\* test of its own edge asks for it.
C27_Claimed_LaneIndependent ==
  BatchReturned =>
    \A l \in Lanes :
      /\ batch_returned[l][2] = batch[l].width_one[2]
      /\ batch_returned[l][3] = ToUnsigned(batch[l].width_one[4])
      /\ ~greedy_dij => batch_returned[l] = WidthOneResult(batch[l])
      /\ batch_pc = "limited" <=> (greedy_dij /\ LaneGreedyRuns(batch[l]))
      /\ batch_pc = "cut_short" =>
           batch_returned[l] = WidthOneUnlimited(batch[l])

\* C27 (amended): the count and the short-circuit are those of the batch:
\* the loop is left when every lane is within the tolerance or after
\* newton_max_iter steps, every lane returns the common count, which is at
\* least the count of its width-1 evaluation, and the limiter is skipped
\* exactly when the density test cuts short in every lane.  A lane whose
\* width-1 evaluation takes as many steps returns the width-1 bracket, and
\* otherwise a bracket inside it; the lane's values are computed from its own
\* two states.
C27_LanesInLockStep ==
  /\ batch_pc \in {"done", "returned", "cut_short", "limited"} =>
       /\ newton_max_iter # 0 =>
            \/ ~LoopCondition(batch_i, newton_max_iter)
            \/ \A l \in Lanes : ToleranceReached(batch[l].gap)
       /\ \A l \in Lanes :
            /\ batch[l].width_one # <<>>
            /\ batch[l].result[3] =
                 ToUnsigned(IF newton_max_iter = 0 THEN -1 ELSE batch_i)
            /\ newton_max_iter # 0 =>
                 /\ batch[l].width_one[4] <= batch_i
                 /\ LessEq(batch[l].width_one[1], batch[l].p_1)
                 /\ LessEq(batch[l].p_1, batch[l].p_2)
                 /\ LessEq(batch[l].p_2, batch[l].width_one[2])
                 /\ batch[l].lambda_max =
                      compute_lambda(batch[l].riemann_data_i,
                                     batch[l].riemann_data_j, batch[l].p_2)
            /\ (newton_max_iter = 0 \/ batch[l].width_one[4] = batch_i) =>
                 batch[l].result = WidthOneResult(batch[l])
  /\ BatchReturned =>
       /\ batch_pc = "returned" <=> ~greedy_dij
       /\ batch_pc = "cut_short" <=>
            (greedy_dij /\ \A l \in Lanes : ~LaneGreedyRuns(batch[l]))
       /\ batch_pc = "limited" <=>
            (greedy_dij /\ \E l \in Lanes : LaneGreedyRuns(batch[l]))
       /\ \A l \in Lanes :
            /\ batch_returned[l][2] = batch[l].result[2]
            /\ batch_returned[l][3] = batch[l].result[3]
            /\ batch_pc = "returned" => batch_returned[l] = batch[l].result
            /\ (batch_pc = "cut_short"
                /\ (newton_max_iter = 0 \/ batch[l].width_one[4] = batch_i)) =>
                 batch_returned[l] = WidthOneUnlimited(batch[l])

\* C27 witness: a lane whose width-1 evaluation takes no Newton step has
\* been batched with a lane that needs steps; it returns the count of the
\* batch, and the limiter has run for it although its own density test cuts
\* short.
C27_Witness ==
  /\ batch_pc = "limited"
  /\ batch[1].width_one[4] = 0
  /\ batch_i > 0
  /\ batch_returned[1][3] = ToUnsigned(batch_i)
  /\ ~LaneGreedyRuns(batch[1])
  /\ LaneGreedyRuns(batch[2])

=============================================================================
